---- MODULE Spec2Model ----
(***************************************************************************)
(* A model of the mini-cp engine: the reversible state managers (Trailer   *)
(* and Copier), the reversible sparse set and the integer domain built on  *)
(* it, the propagation queue of the solver and the depth-first search.     *)
(* Each component is written as operators over records, so that the same   *)
(* definitions serve every specification of this module.                   *)
(***************************************************************************)
EXTENDS Integers, Sequences, FiniteSets, TLC

\* ------------------------------------------------------------------------
\* Bounds of the model
\* ------------------------------------------------------------------------
\* number of reversible primitives created in the state-manager specification
MaxPrims == 1
\* largest value written into a reversible integer
MaxVal == 1
\* number of values in the initial domain of the sparse set
DomSize == 3
\* smallest value of the initial domain (the offset of the sparse set)
DomOfs == 1
\* number of constraints of the solver specification
NumCons == 2
\* number of times constraints are put in the propagation queue before the
\* queue is empty again
MaxEnq == 3
\* largest number of alternatives a branching returns
MaxAlts == 2
\* largest number of nodes the search statistics count
MaxNodes == 3
\* number of variables the "choices" branching of the search specification
\* decides, each by two alternatives
Choices == 3
\* highest value of the Trailer's magic counter (save_state is refused when
\* the frames still open could no longer be restored under this cap)
MaxMagic == 4

\* ------------------------------------------------------------------------
\* Sequence helpers
\* ------------------------------------------------------------------------
Last(s) == s[Len(s)]

Front(s) == SubSeq(s, 1, Len(s) - 1)

Prefix(s, n) == SubSeq(s, 1, n)

\* ------------------------------------------------------------------------
\* Trailer (state.py): v[i] is Trail._v of the i-th primitive, last[i] its
\* Trail._last_magic, current the _BackupTrail being filled (entries
\* <<primitive, saved value>>), prior the deque of the enclosing trails.
\* ------------------------------------------------------------------------
TrailerNew == [kind |-> "Trailer", v |-> <<>>, last |-> <<>>, magic |-> 0, current |-> <<>>, prior |-> <<>>]

TrailerGetLevel(t) == Len(t.prior) - 1

TrailerMakeStateInt(t, init) ==
    [t EXCEPT !.v = Append(@, init), !.last = Append(@, t.magic - 1)]

\* Trail.trail: one entry per primitive and magic value
TrailTrail(t, i) ==
    IF t.last[i] # t.magic
    THEN [t EXCEPT !.last[i] = t.magic, !.current = Append(@, <<i, t.v[i]>>)]
    ELSE t

TrailSetValue(t, i, val) ==
    IF val # t.v[i]
    THEN [TrailTrail(t, i) EXCEPT !.v[i] = val]
    ELSE t

TrailerSaveState(t) ==
    [t EXCEPT !.prior = Append(@, t.current), !.current = <<>>, !.magic = @ + 1]

\* the entries written back in the order of a for-loop over the deque, the
\* oldest first
RECURSIVE BackupTrailRestoreForLoop(_, _)
BackupTrailRestoreForLoop(v, entries) ==
    IF entries = <<>>
    THEN v
    ELSE BackupTrailRestoreForLoop([v EXCEPT ![Head(entries)[1]] = Head(entries)[2]],
                                   Tail(entries))

\* _BackupTrail.restore: pops the entries, the most recent first
RECURSIVE BackupTrailRestore(_, _)
BackupTrailRestore(v, entries) ==
    IF entries = <<>>
    THEN v
    ELSE BackupTrailRestore([v EXCEPT ![Last(entries)[1]] = Last(entries)[2]],
                            Front(entries))

\* restore_state without the increment of the magic number
TrailerRestoreStateSameMagic(t) ==
    [t EXCEPT !.v = BackupTrailRestore(t.v, t.current),
              !.current = Last(t.prior),
              !.prior = Front(t.prior)]

TrailerRestoreState(t) ==
    [t EXCEPT !.v = BackupTrailRestore(t.v, t.current),
              !.current = Last(t.prior),
              !.prior = Front(t.prior),
              !.magic = @ + 1]

\* restore_state_until with an if in place of the while
TrailerRestoreStateUntilOnce(t, level) ==
    IF TrailerGetLevel(t) > level THEN TrailerRestoreState(t) ELSE t

RECURSIVE TrailerRestoreStateUntil(_, _)
TrailerRestoreStateUntil(t, level) ==
    IF TrailerGetLevel(t) > level
    THEN TrailerRestoreStateUntil(TrailerRestoreState(t), level)
    ELSE t

\* ------------------------------------------------------------------------
\* Copier (state.py): v[i] is Copy._v of the i-th element of _store, prior
\* the deque of _Backup, each the values of the store when it was taken.
\* ------------------------------------------------------------------------
CopierNew == [kind |-> "Copier", v |-> <<>>, prior |-> <<>>]

CopierGetLevel(c) == Len(c.prior) - 1

CopierMakeStateInt(c, init) == [c EXCEPT !.v = Append(@, init)]

CopySetValue(c, i, val) == [c EXCEPT !.v[i] = val]

CopierSaveState(c) == [c EXCEPT !.prior = Append(@, c.v)]

\* _Backup.restore: every entry of the backup writes its storage back; a
\* storage created after the backup was taken has no entry in it
BackupRestore(v, backup) ==
    [i \in 1..Len(v) |-> IF i <= Len(backup) THEN backup[i] ELSE v[i]]

CopierRestoreState(c) ==
    [c EXCEPT !.v = BackupRestore(c.v, Last(c.prior)), !.prior = Front(c.prior)]

RECURSIVE CopierRestoreStateUntil(_, _)
CopierRestoreStateUntil(c, level) ==
    IF CopierGetLevel(c) > level
    THEN CopierRestoreStateUntil(CopierRestoreState(c), level)
    ELSE c

\* ------------------------------------------------------------------------
\* StateManager interface: the call is dispatched on the class of the manager
\* ------------------------------------------------------------------------
GetLevel(m) == IF m.kind = "Trailer" THEN TrailerGetLevel(m) ELSE CopierGetLevel(m)

MakeStateIntOf(m, init) ==
    IF m.kind = "Trailer" THEN TrailerMakeStateInt(m, init) ELSE CopierMakeStateInt(m, init)

SetValueOf(m, i, val) ==
    IF m.kind = "Trailer" THEN TrailSetValue(m, i, val) ELSE CopySetValue(m, i, val)

SaveStateOf(m) == IF m.kind = "Trailer" THEN TrailerSaveState(m) ELSE CopierSaveState(m)

RestoreStateOf(m) ==
    IF m.kind = "Trailer" THEN TrailerRestoreState(m) ELSE CopierRestoreState(m)

RestoreStateUntilOf(m, level) ==
    IF m.kind = "Trailer"
    THEN TrailerRestoreStateUntil(m, level)
    ELSE CopierRestoreStateUntil(m, level)

\* ------------------------------------------------------------------------
\* State-manager specification: calls on one manager, a Trailer or a Copier.
\*   sm       the manager
\*   snaps    one entry per open frame: the values when the frame was saved
\*   wns      the with_new_state calls whose body is running: the level
\*            recorded on entry and the values at that moment
\*   lastOp   the call that produced the current state ("other" for one
\*            that creates or writes a primitive), the level it was asked
\*            to return to, the number n of frames it popped, whether it
\*            changed the value of a primitive, and the values exp that
\*            were current when the last frame it popped was saved
\* ------------------------------------------------------------------------
VARIABLES sm, snaps, wns, lastOp

smVars == <<sm, snaps, wns, lastOp>>

\* the variables of the domain specification, described where it is defined
VARIABLES dm, ds, dsnaps, dlast

domVars == <<dm, ds, dsnaps, dlast>>

\* the variables of the solver specification, described where it is defined
VARIABLES cm, cp, cpc, cg

solVars == <<cm, cp, cpc, cg>>

\* the variables of the search specification, described where it is defined
VARIABLES fm, fstack, fpc, fstats, fcall, fg

dfsVars == <<fm, fstack, fpc, fstats, fcall, fg>>

\* the optimization specification
VARIABLES om, ox, obound, ostack, opc, og

optVars == <<om, ox, obound, ostack, opc, og>>

\* the NotEqual specification
VARIABLES nm, nx, ny, nc, ng

neVars == <<nm, nx, ny, nc, ng>>

\* constraints on variables seen as sets of values
VARIABLES ks, kc, kframes, kg

consVars == <<ks, kc, kframes, kg>>

\* the subscriptions of a variable, described where they are specified
VARIABLES tm, tv, tq, tg

stkVars == <<tm, tv, tq, tg>>

vars == <<smVars, domVars, solVars, dfsVars, optVars, neVars, consVars, stkVars>>

\* what the actions of one specification leave alone
besidesSm == <<domVars, solVars, dfsVars, optVars, neVars, consVars, stkVars>>

besidesDom == <<smVars, solVars, dfsVars, optVars, neVars, consVars, stkVars>>

besidesSol == <<smVars, domVars, dfsVars, optVars, neVars, consVars, stkVars>>

besidesDfs == <<smVars, domVars, solVars, optVars, neVars, consVars, stkVars>>

besidesOpt == <<smVars, domVars, solVars, dfsVars, neVars, consVars, stkVars>>

besidesNe == <<smVars, domVars, solVars, dfsVars, optVars, consVars, stkVars>>

besidesCons == <<smVars, domVars, solVars, dfsVars, optVars, neVars, stkVars>>

\* each part at rest, in the specifications that do not use it
SmIdle == sm = TrailerNew /\ snaps = <<>> /\ wns = <<>> /\ lastOp = <<>>

DomIdle == dm = TrailerNew /\ ds = <<>> /\ dsnaps = <<>> /\ dlast = <<>>

SolIdle == cm = TrailerNew /\ cp = <<>> /\ cpc = <<>> /\ cg = <<>>

DfsIdle ==
    fm = TrailerNew /\ fstack = <<>> /\ fpc = <<>> /\ fstats = <<>> /\ fcall = <<>> /\ fg = <<>>

OptIdle ==
    om = TrailerNew /\ ox = <<>> /\ obound = 0 /\ ostack = <<>> /\ opc = <<>> /\ og = <<>>

NeIdle == nm = TrailerNew /\ nx = <<>> /\ ny = <<>> /\ nc = <<>> /\ ng = <<>>

ConsIdle == ks = <<>> /\ kc = <<>> /\ kframes = <<>> /\ kg = <<>>

StkIdle == tm = TrailerNew /\ tv = <<>> /\ tq = <<>> /\ tg = <<>>

besidesStk == <<smVars, domVars, solVars, dfsVars, optVars, neVars, consVars>>

Op(name, level, n, changed, exp) ==
    [op |-> name, level |-> level, n |-> n, changed |-> changed, exp |-> exp]

\* the frame the innermost running with_new_state body must not pop
BodyFloor == IF wns = <<>> THEN -1 ELSE Last(wns).level + 1

SmInit ==
    /\ sm \in {TrailerNew, CopierNew}
    /\ snaps = <<>>
    /\ wns = <<>>
    /\ lastOp = Op("init", -1, 0, FALSE, <<>>)

MakeStateInt ==
    /\ Len(sm.v) < MaxPrims
    /\ \E init \in {0, MaxVal} : sm' = MakeStateIntOf(sm, init)
    /\ lastOp' = Op("other", GetLevel(sm), 0, FALSE, <<>>)
    /\ UNCHANGED <<snaps, wns, besidesSm>>

SetValue ==
    /\ \E i \in 1..Len(sm.v), val \in 0..MaxVal :
          /\ sm' = SetValueOf(sm, i, val)
          /\ lastOp' = Op("other", GetLevel(sm), 0, FALSE, <<>>)
    /\ UNCHANGED <<snaps, wns, besidesSm>>

\* StateInt.increment: set_value(value() + 1)
Increment ==
    /\ \E i \in 1..Len(sm.v) :
          /\ sm.v[i] < MaxVal
          /\ sm' = SetValueOf(sm, i, sm.v[i] + 1)
          /\ lastOp' = Op("other", GetLevel(sm), 0, FALSE, <<>>)
    /\ UNCHANGED <<snaps, wns, besidesSm>>

\* StateInt.decrement: set_value(value() - 1)
Decrement ==
    /\ \E i \in 1..Len(sm.v) :
          /\ sm.v[i] > 0
          /\ sm' = SetValueOf(sm, i, sm.v[i] - 1)
          /\ lastOp' = Op("other", GetLevel(sm), 0, FALSE, <<>>)
    /\ UNCHANGED <<snaps, wns, besidesSm>>

\* every frame that is saved can still be restored under MaxMagic
CanSave(m) ==
    IF m.kind = "Trailer"
    THEN m.magic + GetLevel(m) + 3 <= MaxMagic
    ELSE 2 * (GetLevel(m) + 2) <= MaxMagic

SaveState ==
    /\ CanSave(sm)
    /\ sm' = SaveStateOf(sm)
    /\ snaps' = Append(snaps, sm.v)
    /\ lastOp' = Op("save_state", GetLevel(sm) + 1, 0, FALSE, <<>>)
    /\ UNCHANGED <<wns, besidesSm>>

RestoreState ==
    /\ GetLevel(sm) >= 0
    /\ GetLevel(sm) > BodyFloor
    /\ sm' = RestoreStateOf(sm)
    /\ snaps' = Front(snaps)
    /\ lastOp' = Op("restore_state", GetLevel(sm) - 1, 1, RestoreStateOf(sm).v # sm.v, Last(snaps))
    /\ UNCHANGED <<wns, besidesSm>>

RestoreStateUntilLevel(level) ==
    /\ level >= BodyFloor
    /\ sm' = RestoreStateUntilOf(sm, level)
    /\ snaps' = IF level + 1 < Len(snaps) THEN Prefix(snaps, level + 1) ELSE snaps
    /\ lastOp' = IF level < GetLevel(sm)
                 THEN Op("restore_state_until", level, GetLevel(sm) - level,
                         RestoreStateUntilOf(sm, level).v # sm.v, snaps[level + 2])
                 ELSE Op("restore_state_until", GetLevel(sm), 0, FALSE, <<>>)
    /\ UNCHANGED <<wns, besidesSm>>

RestoreStateUntil == \E level \in -1..(GetLevel(sm) + 1) : RestoreStateUntilLevel(level)

\* with_new_state: level = get_level(); save_state(); then body() runs
WithNewStateEnter ==
    /\ CanSave(sm)
    /\ wns' = Append(wns, [level |-> GetLevel(sm), v |-> sm.v])
    /\ sm' = SaveStateOf(sm)
    /\ snaps' = Append(snaps, sm.v)
    /\ lastOp' = Op("with_new_state_enter", GetLevel(sm) + 1, 0, FALSE, <<>>)
    /\ UNCHANGED besidesSm

\* body() returned: restore_state_until(level)
WithNewStateReturn ==
    /\ wns # <<>>
    /\ sm' = RestoreStateUntilOf(sm, Last(wns).level)
    /\ snaps' = Prefix(snaps, Last(wns).level + 1)
    /\ wns' = Front(wns)
    /\ lastOp' = Op("with_new_state_return", Last(wns).level, GetLevel(sm) - Last(wns).level,
                    FALSE, Last(wns).v)
    /\ UNCHANGED besidesSm

\* body() raised: the exception leaves with_new_state, the statement after
\* body() is not reached
WithNewStateRaise ==
    /\ wns # <<>>
    /\ wns' = Front(wns)
    /\ lastOp' = Op("with_new_state_raise", Last(wns).level, 0, FALSE, Last(wns).v)
    /\ UNCHANGED <<sm, snaps, besidesSm>>

SmNext ==
    \/ MakeStateInt
    \/ SetValue
    \/ Increment
    \/ Decrement
    \/ SaveState
    \/ RestoreState
    \/ RestoreStateUntil

\* calls to the manager outside any with_new_state
\* a fresh state manager; nothing else is in use
SmStart == SmInit /\ DomIdle /\ SolIdle /\ DfsIdle /\ OptIdle /\ NeIdle /\ ConsIdle /\ StkIdle

SpecSM == SmStart /\ [][SmNext]_vars

WnsNext ==
    \/ SmNext
    \/ WithNewStateEnter
    \/ WithNewStateReturn
    \/ WithNewStateRaise

\* the same calls, also from the bodies of with_new_state
SpecWNS == SmStart /\ [][WnsNext]_vars

\* restore_state with no frame saved (level -1).  The Trailer first runs
\* _current.restore(), which pops the entries of the root trail and writes
\* them back, then _prior.pop() raises IndexError on the empty deque: _current
\* is not replaced and _magic is not incremented.  The Copier raises in
\* _prior.pop() before anything is written.
RestoreStateAtRoot ==
    /\ GetLevel(sm) = -1
    /\ wns = <<>>
    /\ sm' = IF sm.kind = "Trailer"
             THEN [sm EXCEPT !.v = BackupTrailRestore(sm.v, sm.current), !.current = <<>>]
             ELSE sm
    /\ lastOp' = Op("IndexError", -1, 0, FALSE, <<>>)
    /\ UNCHANGED <<snaps, wns, besidesSm>>

AnyNext ==
    \/ MakeStateInt
    \/ SetValue
    \/ Increment
    \/ Decrement
    \/ SaveState
    \/ RestoreState
    \/ RestoreStateUntil
    \/ RestoreStateAtRoot

\* any sequence of calls, restore_state with no frame to restore included
SpecAny == SmStart /\ [][AnyNext]_vars

\* A Trailer and a Copier side by side: sm.t and sm.c receive the same calls,
\* the i-th primitive of one is the i-th primitive of the other.
BothInit ==
    /\ sm = [kind |-> "Both", t |-> TrailerNew, c |-> CopierNew]
    /\ snaps = <<>>
    /\ wns = <<>>
    /\ lastOp = Op("init", -1, 0, FALSE, <<>>)

BothStart == BothInit /\ DomIdle /\ SolIdle /\ DfsIdle /\ OptIdle /\ NeIdle /\ ConsIdle /\ StkIdle

BothMakeStateInt ==
    /\ Len(sm.t.v) < MaxPrims
    /\ \E init \in {0, MaxVal} :
          sm' = [sm EXCEPT !.t = TrailerMakeStateInt(@, init), !.c = CopierMakeStateInt(@, init)]
    /\ lastOp' = Op("make_state_int", TrailerGetLevel(sm.t), 0, FALSE, <<>>)
    /\ UNCHANGED <<snaps, wns, besidesSm>>

BothSetValue ==
    /\ \E i \in 1..Len(sm.t.v), val \in 0..MaxVal :
          sm' = [sm EXCEPT !.t = TrailSetValue(@, i, val), !.c = CopySetValue(@, i, val)]
    /\ lastOp' = Op("set_value", TrailerGetLevel(sm.t), 0, FALSE, <<>>)
    /\ UNCHANGED <<snaps, wns, besidesSm>>

BothSaveState ==
    /\ CanSave(sm.t)
    /\ sm' = [sm EXCEPT !.t = TrailerSaveState(@), !.c = CopierSaveState(@)]
    /\ lastOp' = Op("save_state", TrailerGetLevel(sm.t) + 1, 0, FALSE, <<>>)
    /\ UNCHANGED <<snaps, wns, besidesSm>>

BothRestoreState ==
    /\ TrailerGetLevel(sm.t) >= 0
    /\ sm' = [sm EXCEPT !.t = TrailerRestoreState(@), !.c = CopierRestoreState(@)]
    /\ lastOp' = Op("restore_state", TrailerGetLevel(sm.t) - 1, 1, FALSE, <<>>)
    /\ UNCHANGED <<snaps, wns, besidesSm>>

BothRestoreStateUntil ==
    /\ \E level \in -1..TrailerGetLevel(sm.t) :
          /\ sm' = [sm EXCEPT !.t = TrailerRestoreStateUntil(@, level),
                              !.c = CopierRestoreStateUntil(@, level)]
          /\ lastOp' = Op("restore_state_until", level, TrailerGetLevel(sm.t) - level, FALSE, <<>>)
    /\ UNCHANGED <<snaps, wns, besidesSm>>

BothNext ==
    \/ BothMakeStateInt
    \/ BothSetValue
    \/ BothSaveState
    \/ BothRestoreState
    \/ BothRestoreStateUntil

SpecBoth == BothStart /\ [][BothNext]_vars

\* the primitives that existed when the values exp were recorded hold exp
HoldsValues(exp) == Len(sm.v) >= Len(exp) /\ Prefix(sm.v, Len(exp)) = exp

\* C1: after each restore_state, alone or as the last one of a
\* restore_state_until, every reversible primitive of the Trailer or Copier
\* that existed at the matching save_state holds the value it had at that
\* save_state, whatever set_value, increment and decrement calls and whatever
\* nested frames came in between.
C1_RestoreGivesSavedValues ==
    (lastOp.op \in {"restore_state", "restore_state_until"} /\ lastOp.n > 0)
        => HoldsValues(lastOp.exp)

\* a restore_state that undid writes of its frame, inside another frame
C1_Witness ==
    /\ lastOp.op = "restore_state"
    /\ lastOp.changed
    /\ GetLevel(sm) = 0
    /\ HoldsValues(lastOp.exp)

\* C4: with_new_state(f) leaves the state manager at the level and with the
\* reversible values it had on entry, when f returns and when f raises.
C4_WithNewStateAlwaysRestores ==
    lastOp.op \in {"with_new_state_return", "with_new_state_raise"}
        => (GetLevel(sm) = lastOp.level /\ HoldsValues(lastOp.exp))

\* C5: get_level() is -1 on a fresh state manager, each save_state raises it
\* by one and each restore_state lowers it by one (it is one less than the
\* number of frames saved and not yet restored), and restore_state_until(L)
\* with L not above the level ends at level L with the values that were
\* current when frame L+1 was saved.
C5_Levels ==
    /\ GetLevel(sm) = Len(snaps) - 1
    /\ lastOp.op \in {"init", "save_state", "restore_state", "restore_state_until"}
           => GetLevel(sm) = lastOp.level
    /\ (lastOp.op = "restore_state_until" /\ lastOp.n > 0) => HoldsValues(lastOp.exp)

\* a restore_state_until that popped two frames and changed a value
C5_Witness ==
    /\ lastOp.op = "restore_state_until"
    /\ lastOp.n = 2
    /\ lastOp.changed
    /\ GetLevel(sm) = lastOp.level

\* C40: no StateManager operation (save_state, restore_state,
\* restore_state_until, make_state_int) raises an error of its own, for any
\* sequence of calls, restore_state at level -1 included.
C40_StateManagerNeverRaises == lastOp.op # "IndexError"

\* C36: Trailer and Copier are observationally equivalent: for any sequence
\* of make_state_int, set_value, save_state, restore_state and
\* restore_state_until applied identically to both managers, primitives
\* created after a save_state included, value() of every primitive and
\* get_level() agree after every step.
C36_TrailerCopierAgree ==
    /\ TrailerGetLevel(sm.t) = CopierGetLevel(sm.c)
    /\ sm.t.v = sm.c.v

\* the trail of the frame of level L of the Trailer: the one being filled for
\* the innermost frame, the one parked in _prior for an enclosing frame
FrameTrail(L) == IF L = GetLevel(sm) THEN sm.current ELSE sm.prior[L + 2]

\* the entries of primitive i on a trail, the oldest first
EntriesOf(trail, i) == SelectSeq(trail, LAMBDA e : e[1] = i)

\* C35 as stated: in the Trailer, within one frame each reversible primitive
\* has at most one entry on that frame's trail, and that entry holds the value
\* the primitive had just before its first write in the frame (its value when
\* the frame was saved).
C35_OneEntryPerFrame ==
    sm.kind = "Trailer" =>
        \A L \in 0..GetLevel(sm) : \A i \in 1..Len(snaps[L + 1]) :
            /\ Len(EntriesOf(FrameTrail(L), i)) <= 1
            /\ EntriesOf(FrameTrail(L), i) # <<>>
                   => EntriesOf(FrameTrail(L), i)[1][2] = snaps[L + 1][i]

\* C35, amended: in the Trailer, the oldest entry of a reversible primitive on
\* a frame's trail holds the value the primitive had just before its first
\* write in the frame, and a primitive whose value differs from the one it had
\* when the innermost frame was saved has an entry on that frame's trail; a
\* primitive written again after a nested frame was restored has more than
\* one entry.
C35_OldestEntryPerFrame ==
    sm.kind = "Trailer" =>
        /\ \A L \in 0..GetLevel(sm) : \A i \in 1..Len(snaps[L + 1]) :
               EntriesOf(FrameTrail(L), i) # <<>>
                   => EntriesOf(FrameTrail(L), i)[1][2] = snaps[L + 1][i]
        /\ GetLevel(sm) >= 0 =>
               \A i \in 1..Len(Last(snaps)) :
                   sm.v[i] # Last(snaps)[i] => EntriesOf(sm.current, i) # <<>>

\* a primitive written in a frame, before and after a nested frame was
\* restored: two entries on the trail of the frame
C35_Witness ==
    /\ sm.kind = "Trailer"
    /\ GetLevel(sm) = 0
    /\ lastOp.op = "other"
    /\ \E i \in 1..Len(snaps[1]) :
          /\ Len(EntriesOf(sm.current, i)) = 2
          /\ EntriesOf(sm.current, i)[1][2] = snaps[1][i]
          /\ EntriesOf(sm.current, i)[2][2] # snaps[1][i]


\* ------------------------------------------------------------------------
\* StateSparseSet (state.py): the set {ofs, ..., ofs+n-1}.  values and
\* indices are the two arrays (position p of the code is index p+1 here);
\* _size, _min and _max are the primitives b, b+1 and b+2 of the manager m.
\* Every operator that changes the set returns the new manager and set.
\* ------------------------------------------------------------------------
SetMax(S) == CHOOSE x \in S : \A y \in S : y <= x

SetMin(S) == CHOOSE x \in S : \A y \in S : y >= x

SparseSetNew(m, n, ofs) ==
    [m |-> MakeStateIntOf(MakeStateIntOf(MakeStateIntOf(m, n), 0), n - 1),
     s |-> [b |-> Len(m.v) + 1, n |-> n, ofs |-> ofs,
            values |-> [i \in 1..n |-> i - 1],
            indices |-> [i \in 1..n |-> i - 1]]]

SSSize(m, s) == m.v[s.b]

SSIsEmpty(m, s) == SSSize(m, s) = 0

\* min() and max() raise ValueError on the empty set: they are only used
\* where the set is not empty
SSMin(m, s) == m.v[s.b + 1] + s.ofs

SSMax(m, s) == m.v[s.b + 2] + s.ofs

SSInternalContains(m, s, val) ==
    IF val < 0 \/ val >= s.n THEN FALSE ELSE s.indices[val + 1] < SSSize(m, s)

SSContains(m, s, val) == SSInternalContains(m, s, val - s.ofs)

SSExchangePositions(s, v1, v2) ==
    LET i1 == s.indices[v1 + 1]
        i2 == s.indices[v2 + 1]
        vals1 == [s.values EXCEPT ![i1 + 1] = v2]
        vals2 == [vals1 EXCEPT ![i2 + 1] = v1]
        ind1 == [s.indices EXCEPT ![v1 + 1] = i2]
        ind2 == [ind1 EXCEPT ![v2 + 1] = i1]
    IN  [s EXCEPT !.values = vals2, !.indices = ind2]

\* the maximum was removed: the first value present from val-1 down to _min
SSUpdateMaxValRemoved(m, s, val) ==
    IF ~SSIsEmpty(m, s) /\ m.v[s.b + 2] = val
    THEN LET found == {v \in m.v[s.b + 1]..(val - 1) : SSInternalContains(m, s, v)}
         IN  IF found # {} THEN SetValueOf(m, s.b + 2, SetMax(found)) ELSE m
    ELSE m

\* a sparse set that keeps its minimum when the minimum is removed
SSUpdateMinValRemovedStale(m, s, val) == m

\* the minimum was removed: the first value present from val+1 up to _max
SSUpdateMinValRemoved(m, s, val) ==
    IF ~SSIsEmpty(m, s) /\ m.v[s.b + 1] = val
    THEN LET found == {v \in (val + 1)..m.v[s.b + 2] : SSInternalContains(m, s, v)}
         IN  IF found # {} THEN SetValueOf(m, s.b + 1, SetMin(found)) ELSE m
    ELSE m

SSUpdateBoundsValRemoved(m, s, val) ==
    SSUpdateMinValRemoved(SSUpdateMaxValRemoved(m, s, val), s, val)

SSRemove(m, s, val) ==
    IF ~SSContains(m, s, val)
    THEN [m |-> m, s |-> s, ret |-> FALSE]
    ELSE LET v == val - s.ofs
             sz == SSSize(m, s)
             s1 == SSExchangePositions(s, v, s.values[sz])
             m1 == SetValueOf(m, s.b, sz - 1)
         IN  [m |-> SSUpdateBoundsValRemoved(m1, s1, v), s |-> s1, ret |-> TRUE]

\* requires v0 in the set (an assert of the code)
SSRemoveAllBut(m, s, v0) ==
    LET v == v0 - s.ofs
        val == s.values[1]
        index == s.indices[v + 1]
        ind1 == [s.indices EXCEPT ![v + 1] = 0]
        vals1 == [s.values EXCEPT ![1] = v]
        ind2 == [ind1 EXCEPT ![val + 1] = index]
        vals2 == [vals1 EXCEPT ![index + 1] = val]
        m1 == SetValueOf(m, s.b + 1, v)
        m2 == SetValueOf(m1, s.b + 2, v)
    IN  [m |-> SetValueOf(m2, s.b, 1),
         s |-> [s EXCEPT !.values = vals2, !.indices = ind2]]

\* a remove_all that writes the size past set_value, so that nothing is
\* recorded for restore_state
SSRemoveAllUnrecorded(m, s) == [m |-> [m EXCEPT !.v[s.b] = 0], s |-> s]

SSRemoveAll(m, s) == [m |-> SetValueOf(m, s.b, 0), s |-> s]

\* for v in range(lo, hi): remove(v)
RECURSIVE SSRemoveUp(_, _, _, _)
SSRemoveUp(m, s, lo, hi) ==
    IF lo >= hi
    THEN [m |-> m, s |-> s]
    ELSE LET r == SSRemove(m, s, lo) IN SSRemoveUp(r.m, r.s, lo + 1, hi)

\* for v in range(hi, lo, -1): remove(v)
RECURSIVE SSRemoveDown(_, _, _, _)
SSRemoveDown(m, s, hi, lo) ==
    IF hi <= lo
    THEN [m |-> m, s |-> s]
    ELSE LET r == SSRemove(m, s, hi) IN SSRemoveDown(r.m, r.s, hi - 1, lo)

SSRemoveBelow(m, s, value) ==
    IF SSMax(m, s) < value
    THEN SSRemoveAll(m, s)
    ELSE SSRemoveUp(m, s, SSMin(m, s), value)

SSRemoveAbove(m, s, value) ==
    IF SSMin(m, s) > value
    THEN SSRemoveAll(m, s)
    ELSE SSRemoveDown(m, s, SSMax(m, s), value)

\* the values of the set, as fill_array lists them
SSMembers(m, s) == {s.values[i] + s.ofs : i \in 1..SSSize(m, s)}

\* ------------------------------------------------------------------------
\* SparseSetDomain (domain.py): each mutator returns the new manager and set
\* and the listener methods it calls, in the order of the calls, for a
\* listener whose methods return.
\* ------------------------------------------------------------------------
If(c, e) == IF c THEN <<e>> ELSE <<>>

\* a remove that calls change_min whenever it calls change_max
DomainRemoveOneBound(m, s, v) ==
    IF SSContains(m, s, v)
    THEN LET maxChanged == SSMax(m, s) = v
             r == SSRemove(m, s, v)
         IN  [m |-> r.m, s |-> r.s,
              ev |-> If(SSSize(r.m, r.s) = 0, "empty") \o <<"change">>
                     \o If(maxChanged, "change_max") \o If(maxChanged, "change_min")
                     \o If(SSSize(r.m, r.s) = 1, "fix")]
    ELSE [m |-> m, s |-> s, ev |-> <<>>]

DomainRemove(m, s, v) ==
    IF SSContains(m, s, v)
    THEN LET maxChanged == SSMax(m, s) = v
             minChanged == SSMin(m, s) = v
             r == SSRemove(m, s, v)
         IN  [m |-> r.m, s |-> r.s,
              ev |-> If(SSSize(r.m, r.s) = 0, "empty") \o <<"change">>
                     \o If(maxChanged, "change_max") \o If(minChanged, "change_min")
                     \o If(SSSize(r.m, r.s) = 1, "fix")]
    ELSE [m |-> m, s |-> s, ev |-> <<>>]

\* a remove_all_but that does nothing when v is not in the domain
DomainRemoveAllButIgnoresAbsent(m, s, v) ==
    IF SSContains(m, s, v) /\ SSSize(m, s) # 1
    THEN LET maxChanged == SSMax(m, s) # v
             minChanged == SSMin(m, s) # v
             r == SSRemoveAllBut(m, s, v)
         IN  [m |-> r.m, s |-> r.s,
              ev |-> <<"fix", "change">>
                     \o If(maxChanged, "change_max") \o If(minChanged, "change_min")]
    ELSE [m |-> m, s |-> s, ev |-> <<>>]

\* a remove_all_but that calls fix also when v is the only value
DomainRemoveAllButAlwaysFix(m, s, v) ==
    IF SSContains(m, s, v)
    THEN IF SSSize(m, s) # 1
         THEN LET maxChanged == SSMax(m, s) # v
                  minChanged == SSMin(m, s) # v
                  r == SSRemoveAllBut(m, s, v)
              IN  [m |-> r.m, s |-> r.s,
                   ev |-> If(SSSize(r.m, r.s) = 0, "empty") \o <<"fix", "change">>
                          \o If(maxChanged, "change_max") \o If(minChanged, "change_min")]
         ELSE [m |-> m, s |-> s, ev |-> <<"fix">>]
    ELSE LET r == SSRemoveAll(m, s) IN [m |-> r.m, s |-> r.s, ev |-> <<"empty">>]

DomainRemoveAllBut(m, s, v) ==
    IF SSContains(m, s, v)
    THEN IF SSSize(m, s) # 1
         THEN LET maxChanged == SSMax(m, s) # v
                  minChanged == SSMin(m, s) # v
                  r == SSRemoveAllBut(m, s, v)
              IN  [m |-> r.m, s |-> r.s,
                   ev |-> If(SSSize(r.m, r.s) = 0, "empty") \o <<"fix", "change">>
                          \o If(maxChanged, "change_max") \o If(minChanged, "change_min")]
         ELSE [m |-> m, s |-> s, ev |-> <<>>]
    ELSE LET r == SSRemoveAll(m, s) IN [m |-> r.m, s |-> r.s, ev |-> <<"empty">>]

\* a remove_below that calls change before change_min
DomainRemoveBelowChangeFirst(m, s, value) ==
    IF SSMin(m, s) < value
    THEN LET r == SSRemoveBelow(m, s, value)
         IN  [m |-> r.m, s |-> r.s,
              ev |-> IF SSSize(r.m, r.s) = 0 THEN <<"empty">>
                     ELSE IF SSSize(r.m, r.s) = 1 THEN <<"fix", "change", "change_min">>
                     ELSE <<"change", "change_min">>]
    ELSE [m |-> m, s |-> s, ev |-> <<>>]

\* requires a set that is not empty: min() raises ValueError otherwise
DomainRemoveBelow(m, s, value) ==
    IF SSMin(m, s) < value
    THEN LET r == SSRemoveBelow(m, s, value)
         IN  [m |-> r.m, s |-> r.s,
              ev |-> IF SSSize(r.m, r.s) = 0 THEN <<"empty">>
                     ELSE IF SSSize(r.m, r.s) = 1 THEN <<"fix", "change_min", "change">>
                     ELSE <<"change_min", "change">>]
    ELSE [m |-> m, s |-> s, ev |-> <<>>]

\* requires a set that is not empty: max() raises ValueError otherwise
DomainRemoveAbove(m, s, value) ==
    IF SSMax(m, s) > value
    THEN LET r == SSRemoveAbove(m, s, value)
         IN  [m |-> r.m, s |-> r.s,
              ev |-> IF SSSize(r.m, r.s) = 0 THEN <<"empty">>
                     ELSE IF SSSize(r.m, r.s) = 1 THEN <<"fix", "change_max", "change">>
                     ELSE <<"change_max", "change">>]
    ELSE [m |-> m, s |-> s, ev |-> <<>>]

\* _DomainListener of IntVarImpl: empty() raises InconsistencyException, so
\* the calls that follow it in the mutator are not made
Occurs(ev, e) == \E i \in 1..Len(ev) : ev[i] = e

Outcome(ev) == IF Occurs(ev, "empty") THEN "Inconsistency" ELSE "return"

RECURSIVE Delivered(_)
Delivered(ev) ==
    IF ev = <<>> THEN <<>>
    ELSE IF Head(ev) = "empty" THEN <<"empty">>
    ELSE <<Head(ev)>> \o Delivered(Tail(ev))

\* ------------------------------------------------------------------------
\* Domain specification: one sparse set {DomOfs, ..., DomOfs+DomSize-1} on a
\* Trailer or a Copier, changed through StateSparseSet directly and through
\* the mutators of the IntVarImpl that owns it.
\*   dm, ds   the manager and the sparse set
\*   dsnaps   one entry per open frame: the set when the frame was saved,
\*            and whether its values array was then as constructed
\*   dlast    the call that produced the current state: how it ended,
\*            for a domain mutator called with a recording listener what
\*            the listener received,
\*            whether the set was empty and whether it held the argument
\*            before the call, and for restore_state the set recorded at the
\*            matching save_state and whether the values array, as
\*            constructed at the save_state, is now another one
\* ------------------------------------------------------------------------
Universe == DomOfs..(DomOfs + DomSize - 1)

\* arguments of the calls: the universe and one value beyond each end
Args == (DomOfs - 1)..(DomOfs + DomSize)

Contained(m, s) == {v \in Universe : SSContains(m, s, v)}

Picture(m, s) ==
    [members |-> Contained(m, s), size |-> SSSize(m, s),
     min |-> m.v[s.b + 1], max |-> m.v[s.b + 2]]

\* the values array is as the constructor left it
Fresh(s) == s.values = [i \in 1..s.n |-> i - 1]

NoPicture == [members |-> {}, size |-> 0, min |-> 0, max |-> 0]

\* a call of the sparse set itself, of which nothing is recorded
SsOp == [op |-> "sparse_set", outcome |-> "return", wasEmpty |-> FALSE, had |-> FALSE,
         moved |-> FALSE, exp |-> NoPicture]

\* a call of an IntVar mutator with argument v
VarOp(name, v, outcome) ==
    [op |-> name, outcome |-> outcome, wasEmpty |-> SSIsEmpty(dm, ds),
     had |-> SSContains(dm, ds, v), moved |-> FALSE, exp |-> NoPicture]

DomInit ==
    /\ \E m \in {TrailerNew, CopierNew} :
          /\ dm = SparseSetNew(m, DomSize, DomOfs).m
          /\ ds = SparseSetNew(m, DomSize, DomOfs).s
    /\ dsnaps = <<>>
    /\ dlast = [SsOp EXCEPT !.op = "init"]

\* StateSparseSet.remove(val)
SsRemove ==
    /\ \E val \in Args :
          LET r == SSRemove(dm, ds, val)
          IN  dm' = r.m /\ ds' = r.s
    /\ dlast' = SsOp
    /\ UNCHANGED <<dsnaps, besidesDom>>

\* StateSparseSet.remove_all_but(v), v in the set
SsRemoveAllBut ==
    /\ \E v \in Args :
          /\ SSContains(dm, ds, v)
          /\ LET r == SSRemoveAllBut(dm, ds, v)
             IN  dm' = r.m /\ ds' = r.s
    /\ dlast' = SsOp
    /\ UNCHANGED <<dsnaps, besidesDom>>

\* StateSparseSet.remove_below(value), on a set that is not empty (max()
\* raises ValueError on the empty set)
SsRemoveBelow ==
    /\ ~SSIsEmpty(dm, ds)
    /\ \E value \in Args :
          LET r == SSRemoveBelow(dm, ds, value)
          IN  dm' = r.m /\ ds' = r.s
    /\ dlast' = SsOp
    /\ UNCHANGED <<dsnaps, besidesDom>>

\* StateSparseSet.remove_above(value), on a set that is not empty (min()
\* raises ValueError on the empty set)
SsRemoveAbove ==
    /\ ~SSIsEmpty(dm, ds)
    /\ \E value \in Args :
          LET r == SSRemoveAbove(dm, ds, value)
          IN  dm' = r.m /\ ds' = r.s
    /\ dlast' = SsOp
    /\ UNCHANGED <<dsnaps, besidesDom>>

\* IntVarImpl.remove(v)
VarRemove ==
    /\ \E v \in Args :
          LET r == DomainRemove(dm, ds, v)
          IN  /\ dm' = r.m
              /\ ds' = r.s
              /\ dlast' = VarOp("remove", v, Outcome(r.ev))
    /\ UNCHANGED <<dsnaps, besidesDom>>

\* IntVarImpl.fix(v)
VarFix ==
    /\ \E v \in Args :
          LET r == DomainRemoveAllBut(dm, ds, v)
          IN  /\ dm' = r.m
              /\ ds' = r.s
              /\ dlast' = VarOp("fix", v, Outcome(r.ev))
    /\ UNCHANGED <<dsnaps, besidesDom>>

\* IntVarImpl.remove_below(v); the domain's min() raises ValueError when empty
VarRemoveBelow ==
    /\ \E v \in Args :
          IF SSIsEmpty(dm, ds)
          THEN /\ dlast' = VarOp("remove_below", v, "ValueError")
               /\ UNCHANGED <<dm, ds>>
          ELSE LET r == DomainRemoveBelow(dm, ds, v)
               IN  /\ dm' = r.m
                   /\ ds' = r.s
                   /\ dlast' = VarOp("remove_below", v, Outcome(r.ev))
    /\ UNCHANGED <<dsnaps, besidesDom>>

\* IntVarImpl.remove_above(v); the domain's max() raises ValueError when empty
VarRemoveAbove ==
    /\ \E v \in Args :
          IF SSIsEmpty(dm, ds)
          THEN /\ dlast' = VarOp("remove_above", v, "ValueError")
               /\ UNCHANGED <<dm, ds>>
          ELSE LET r == DomainRemoveAbove(dm, ds, v)
               IN  /\ dm' = r.m
                   /\ ds' = r.s
                   /\ dlast' = VarOp("remove_above", v, Outcome(r.ev))
    /\ UNCHANGED <<dsnaps, besidesDom>>

\* a call of a SparseSetDomain mutator with argument v and a listener that
\* records the calls it receives: the calls in their order, whether v was
\* the minimum and the maximum, whether the domain held a value other than
\* v, and whether the domain is as it was
Heard(name, v, r) ==
    [op |-> name, outcome |-> "return", wasEmpty |-> SSIsEmpty(dm, ds),
     had |-> SSContains(dm, ds, v), moved |-> FALSE, exp |-> NoPicture,
     ev |-> r.ev,
     wasMin |-> ~SSIsEmpty(dm, ds) /\ SSMin(dm, ds) = v,
     wasMax |-> ~SSIsEmpty(dm, ds) /\ SSMax(dm, ds) = v,
     others |-> Contained(dm, ds) \ {v} # {},
     same |-> Picture(r.m, r.s) = Picture(dm, ds)]

\* SparseSetDomain.remove(v, l)
DomRemove ==
    /\ \E v \in Args :
          LET r == DomainRemove(dm, ds, v)
          IN  /\ dm' = r.m
              /\ ds' = r.s
              /\ dlast' = Heard("Domain.remove", v, r)
    /\ UNCHANGED <<dsnaps, besidesDom>>

\* SparseSetDomain.remove_all_but(v, l)
DomRemoveAllBut ==
    /\ \E v \in Args :
          LET r == DomainRemoveAllBut(dm, ds, v)
          IN  /\ dm' = r.m
              /\ ds' = r.s
              /\ dlast' = Heard("Domain.remove_all_but", v, r)
    /\ UNCHANGED <<dsnaps, besidesDom>>

\* SparseSetDomain.remove_below(v, l), on a domain that is not empty
DomRemoveBelow ==
    /\ ~SSIsEmpty(dm, ds)
    /\ \E v \in Args :
          LET r == DomainRemoveBelow(dm, ds, v)
          IN  /\ dm' = r.m
              /\ ds' = r.s
              /\ dlast' = Heard("Domain.remove_below", v, r)
    /\ UNCHANGED <<dsnaps, besidesDom>>

\* SparseSetDomain.remove_above(v, l), on a domain that is not empty
DomRemoveAbove ==
    /\ ~SSIsEmpty(dm, ds)
    /\ \E v \in Args :
          LET r == DomainRemoveAbove(dm, ds, v)
          IN  /\ dm' = r.m
              /\ ds' = r.s
              /\ dlast' = Heard("Domain.remove_above", v, r)
    /\ UNCHANGED <<dsnaps, besidesDom>>

DomSaveState ==
    /\ CanSave(dm)
    /\ dm' = SaveStateOf(dm)
    /\ dsnaps' = Append(dsnaps, [set |-> Picture(dm, ds), fresh |-> Fresh(ds)])
    /\ dlast' = [SsOp EXCEPT !.op = "save_state"]
    /\ UNCHANGED <<ds, besidesDom>>

DomRestoreState ==
    /\ GetLevel(dm) >= 0
    /\ dm' = RestoreStateOf(dm)
    /\ dsnaps' = Front(dsnaps)
    /\ dlast' = [op |-> "restore_state", outcome |-> "return",
                 wasEmpty |-> SSIsEmpty(dm, ds), had |-> FALSE,
                 moved |-> Last(dsnaps).fresh /\ ~Fresh(ds), exp |-> Last(dsnaps).set]
    /\ UNCHANGED <<ds, besidesDom>>

DomNext ==
    \/ SsRemove
    \/ SsRemoveAllBut
    \/ SsRemoveBelow
    \/ SsRemoveAbove
    \/ VarRemove
    \/ VarFix
    \/ VarRemoveBelow
    \/ VarRemoveAbove
    \/ DomSaveState
    \/ DomRestoreState

\* a fresh variable on a fresh state manager; nothing else is in use
DomStart == DomInit /\ SmIdle /\ SolIdle /\ DfsIdle /\ OptIdle /\ NeIdle /\ ConsIdle /\ StkIdle

SpecDom == DomStart /\ [][DomNext]_vars

\* C2: for a sparse-set domain, restore_state after a save_state and any
\* sequence of remove, remove_all_but, remove_below and remove_above, also
\* ones that empty the set, gives back the set of the save_state: the same
\* members, size, min and max; the values array may have changed.
C2_RestoreGivesSavedDomain ==
    dlast.op = "restore_state"
        => /\ Contained(dm, ds) = dlast.exp.members
           /\ SSSize(dm, ds) = dlast.exp.size
           /\ dm.v[ds.b + 1] = dlast.exp.min
           /\ dm.v[ds.b + 2] = dlast.exp.max

\* a restore_state of a set emptied since the save_state, whose values array
\* is no longer the one of the save_state
C2_Witness ==
    /\ dlast.op = "restore_state"
    /\ dlast.wasEmpty
    /\ dlast.exp.size >= 2
    /\ dlast.moved
    /\ Contained(dm, ds) = dlast.exp.members

\* C6: in every state of a sparse-set domain, 0 <= size <= n, values and
\* indices are inverse permutations, size is the number of values contained
\* and, when the set is not empty, min() and max() are its smallest and
\* largest values, so that size = 1 exactly when min() = max().
C6_SparseSetInvariant ==
    /\ 0 <= SSSize(dm, ds) /\ SSSize(dm, ds) <= ds.n
    /\ {ds.values[i] : i \in 1..ds.n} = 0..(ds.n - 1)
    /\ \A i \in 1..ds.n : ds.indices[ds.values[i] + 1] = i - 1
    /\ \A v \in 0..(ds.n - 1) : ds.values[ds.indices[v + 1] + 1] = v
    /\ SSSize(dm, ds) = Cardinality(Contained(dm, ds))
    /\ ~SSIsEmpty(dm, ds) =>
          /\ SSMin(dm, ds) = SetMin(Contained(dm, ds))
          /\ SSMax(dm, ds) = SetMax(Contained(dm, ds))
          /\ (SSSize(dm, ds) = 1) <=> (SSMin(dm, ds) = SSMax(dm, ds))

\* a set with a hole between its minimum and its maximum, after a restore
C6_Witness ==
    /\ dlast.op = "restore_state"
    /\ Contained(dm, ds) = {DomOfs, DomOfs + 2}
    /\ SSMin(dm, ds) = DomOfs
    /\ SSMax(dm, ds) = DomOfs + 2

\* C7: a call of remove, fix, remove_below or remove_above of an IntVar
\* that empties its domain raises Inconsistency in that call, and so does
\* fix(v) with v not in the domain.
C7_EmptyRaisesInconsistency ==
    /\ (/\ dlast.op \in {"remove", "fix", "remove_below", "remove_above"}
        /\ ~dlast.wasEmpty
        /\ SSIsEmpty(dm, ds))
           => dlast.outcome = "Inconsistency"
    /\ (dlast.op = "fix" /\ ~dlast.had) => dlast.outcome = "Inconsistency"

\* remove_below emptied a domain of several values and raised
C7_Witness ==
    /\ dlast.op = "remove_below"
    /\ ~dlast.wasEmpty
    /\ SSIsEmpty(dm, ds)
    /\ dlast.outcome = "Inconsistency"

\* ------------------------------------------------------------------------
\* Listener specification: the same sparse-set domain, changed only through
\* the mutators of SparseSetDomain with a listener that records the calls
\* it receives and returns, between save_state and restore_state.
\* ------------------------------------------------------------------------
ListenNext ==
    \/ DomRemove
    \/ DomRemoveAllBut
    \/ DomRemoveBelow
    \/ DomRemoveAbove
    \/ DomSaveState
    \/ DomRestoreState

SpecListen == DomStart /\ [][ListenNext]_vars

\* the number of times a listener method was called
Count(ev, e) == Cardinality({i \in 1..Len(ev) : ev[i] = e})

\* C28: Domain remove(v) with v present calls change exactly once,
\* change_min if and only if v was the minimum, change_max if and only if
\* v was the maximum, fix if and only if exactly one value remains, empty
\* if and only if none remains, and none of them twice; with v absent it
\* calls nothing and leaves the domain as it was.
C28_RemoveEvents ==
    dlast.op = "Domain.remove"
        => IF dlast.had
           THEN /\ Count(dlast.ev, "change") = 1
                /\ Count(dlast.ev, "change_min") = (IF dlast.wasMin THEN 1 ELSE 0)
                /\ Count(dlast.ev, "change_max") = (IF dlast.wasMax THEN 1 ELSE 0)
                /\ Count(dlast.ev, "fix") = (IF SSSize(dm, ds) = 1 THEN 1 ELSE 0)
                /\ Count(dlast.ev, "empty") = (IF SSSize(dm, ds) = 0 THEN 1 ELSE 0)
                /\ ~dlast.same
           ELSE dlast.ev = <<>> /\ dlast.same

\* remove took the maximum, not the minimum, of three values
C28_Witness ==
    /\ dlast.op = "Domain.remove"
    /\ dlast.had /\ dlast.wasMax /\ ~dlast.wasMin
    /\ SSSize(dm, ds) = 2
    /\ Occurs(dlast.ev, "change_max") /\ ~Occurs(dlast.ev, "change_min")

Column(e) ==
    CASE e = "empty" -> 1
      [] e = "fix" -> 2
      [] e = "change" -> 3
      [] e = "change_min" -> 4
      [] e = "change_max" -> 5

DomainCalls ==
    {"Domain.remove", "Domain.remove_all_but", "Domain.remove_below",
     "Domain.remove_above"}

\* C30 as stated: the calls of one mutator are made in the order empty,
\* fix, change, change_min, change_max.
C30_TableOrder ==
    dlast.op \in DomainCalls
        => \A i, j \in 1..Len(dlast.ev) :
              i < j => Column(dlast.ev[i]) < Column(dlast.ev[j])

\* the order in which each mutator makes its calls
Order(op) ==
    CASE op = "Domain.remove" -> <<"empty", "change", "change_max", "change_min", "fix">>
      [] op = "Domain.remove_all_but" -> <<"empty", "fix", "change", "change_max", "change_min">>
      [] op = "Domain.remove_below" -> <<"empty", "fix", "change_min", "change">>
      [] op = "Domain.remove_above" -> <<"empty", "fix", "change_max", "change">>

Place(seq, e) == CHOOSE i \in 1..Len(seq) : seq[i] = e

\* C30 as the code has it: each mutator makes its calls in an order of its
\* own, each method at most once: remove calls empty, change, change_max,
\* change_min, fix; remove_all_but calls empty, fix, change, change_max,
\* change_min; remove_below calls fix, change_min, change and remove_above
\* fix, change_max, change, or empty alone.
C30_OrderPerMutator ==
    dlast.op \in DomainCalls
        => /\ \A i \in 1..Len(dlast.ev) : Occurs(Order(dlast.op), dlast.ev[i])
           /\ \A i, j \in 1..Len(dlast.ev) :
                 i < j => Place(Order(dlast.op), dlast.ev[i])
                             < Place(Order(dlast.op), dlast.ev[j])
           /\ dlast.op \in {"Domain.remove_below", "Domain.remove_above"}
                 /\ Occurs(dlast.ev, "empty") => dlast.ev = <<"empty">>

\* remove left one value and called change before fix
C30_Witness ==
    /\ dlast.op = "Domain.remove"
    /\ dlast.ev = <<"change", "change_max", "fix">>

\* ------------------------------------------------------------------------
\* MiniCP (solver.py): the propagation queue and fix_point.  A solver is
\* [queue, sched]: the deque of constraints and the _scheduled flag of each
\* constraint.  The _active flag of constraint c is the reversible reference
\* that AbstractConstraint.__init__ makes: primitive c+1 of the manager,
\* after the size of MiniCP._vars (1 is True, 0 is False).
\* ------------------------------------------------------------------------
Cons == 1..NumCons

RECURSIVE MakeActives(_, _)
MakeActives(m, n) == IF n = 0 THEN m ELSE MakeActives(MakeStateIntOf(m, 1), n - 1)

MiniCPNew == [queue |-> <<>>, sched |-> [c \in Cons |-> FALSE]]

IsActive(m, c) == m.v[c + 1] = 1

SetActive(m, c, active) == SetValueOf(m, c + 1, IF active THEN 1 ELSE 0)

\* a schedule that does not look at the scheduled flag
MiniCPScheduleAgain(s, m, c) ==
    IF IsActive(m, c)
    THEN [s EXCEPT !.sched[c] = TRUE, !.queue = Append(@, c)]
    ELSE s

MiniCPSchedule(s, m, c) ==
    IF IsActive(m, c) /\ ~s.sched[c]
    THEN [s EXCEPT !.sched[c] = TRUE, !.queue = Append(@, c)]
    ELSE s

\* a queue that gives back the constraint put in last
MiniCPPopRight(s) == [c |-> Last(s.queue), s |-> [s EXCEPT !.queue = Front(@)]]

\* _propagation_queue.popleft()
MiniCPPopLeft(s) == [c |-> Head(s.queue), s |-> [s EXCEPT !.queue = Tail(@)]]

\* a _propagate that calls c.propagate() whether c is active or not
MiniCPPropagateAlways(s, m, c) == [s |-> [s EXCEPT !.sched[c] = FALSE], run |-> TRUE]

\* a _propagate that never calls c.propagate()
MiniCPPropagateNever(s, m, c) == [s |-> [s EXCEPT !.sched[c] = FALSE], run |-> FALSE]

\* _propagate(c) up to the call of c.propagate(): run is whether it is called
MiniCPPropagate(s, m, c) ==
    [s |-> [s EXCEPT !.sched[c] = FALSE], run |-> IsActive(m, c)]

\* an except block that empties the queue and leaves the flags
MiniCPDrainKeepsFlags(s) == [s EXCEPT !.queue = <<>>]

\* the except block of fix_point: while queue: popleft().set_scheduled(False)
RECURSIVE MiniCPDrain(_)
MiniCPDrain(s) ==
    IF s.queue = <<>>
    THEN s
    ELSE LET r == MiniCPPopLeft(s)
         IN  MiniCPDrain([r.s EXCEPT !.sched[r.c] = FALSE])

\* ------------------------------------------------------------------------
\* Solver specification: NumCons constraints on a solver whose state manager
\* is a Trailer or a Copier.  The code that runs outside fix_point (the
\* search, a branch, a post), the fix-point listeners and the propagate()
\* of a constraint are the environment: through the mutators of variables
\* they call schedule, they deactivate constraints and they raise.
\*   cm    the state manager
\*   cp    the solver
\*   cpc   where the control is: at "idle" outside fix_point, at "listeners"
\*         in _notify_fix_point, at "loop" between two propagations, at
\*         "propagate" inside the propagate() of constraint c, at "except"
\*         in the except block with exception e
\*   cg    what the last step was (op) and, for a schedule or a dequeue,
\*         its constraint (c), whether the constraint was scheduled before
\*         (was) and whether it was put in the queue (put); for each
\*         queued constraint the rank of its enqueueing (stamp), the next
\*         rank, the rank of the constraint dequeued last; the exception
\*         raised last in fix_point (0: by a listener, c: by constraint
\*         c), the one that left fix_point and the number of constraints
\*         the except block took from the queue; for each constraint what
\*         its last dequeue of this fix_point did (fate: "ran" its
\*         propagate() or "skipped" it); the reversible values at the
\*         save_state of each open frame (snaps) and, for a restore_state,
\*         those of the frame restored (exp) and whether a constraint
\*         became active again (revived)
\* ------------------------------------------------------------------------
At(place, c, e) == [at |-> place, c |-> c, e |-> e]

NoStamps == [c \in Cons |-> 0]

NoFate == [c \in Cons |-> "none"]

\* what a step that is not the end of fix_point records; the fates are
\* forgotten with the first step after fix_point
Step(g) ==
    [g EXCEPT !.op = "step", !.c = 0, !.was = FALSE, !.put = FALSE,
              !.raised = -1, !.result = -1, !.drained = 0,
              !.fate = IF g.op \in {"fix_point_return", "fix_point_raise"} THEN NoFate ELSE @,
              !.exp = <<>>, !.revived = FALSE]

\* the ranks start again when the queue is empty
Ranks(s, g) ==
    IF s.queue = <<>> THEN [g EXCEPT !.stamp = NoStamps, !.next = 1, !.lastDeq = 0] ELSE g

SolInit ==
    /\ \E m \in {TrailerNew, CopierNew} : cm = MakeActives(MakeStateIntOf(m, 0), NumCons)
    /\ cp = MiniCPNew
    /\ cpc = At("idle", 0, -1)
    /\ cg = [op |-> "init", stamp |-> NoStamps, next |-> 1, lastDeq |-> 0,
             raised |-> -1, result |-> -1, drained |-> 0, c |-> 0, was |-> FALSE,
             put |-> FALSE, fate |-> NoFate, snaps |-> <<>>, exp |-> <<>>,
             revived |-> FALSE]

\* cp.schedule(c), reached from a mutator of a variable c is subscribed to,
\* called by a branch or a post, by a fix-point listener or by a propagate()
SolSchedule ==
    /\ cpc.at \in {"idle", "listeners", "propagate"}
    /\ \E c \in Cons :
          LET s == MiniCPSchedule(cp, cm, c)
              put == Len(s.queue) > Len(cp.queue)
          IN  /\ put => cg.next <= MaxEnq
              /\ cp' = s
              /\ cg' = IF put
                       THEN [Step(cg) EXCEPT !.op = "schedule", !.c = c, !.put = TRUE,
                                             !.stamp[c] = cg.next, !.next = @ + 1]
                       ELSE [Step(cg) EXCEPT !.op = "schedule", !.c = c,
                                             !.was = cp.sched[c]]
    /\ UNCHANGED <<cm, cpc, besidesSol>>

\* set_active(False): a constraint on itself in propagate(), or in a post
SolSetInactive ==
    /\ cpc.at \in {"idle", "propagate"}
    /\ \E c \in Cons :
          /\ cpc.at = "propagate" => c = cpc.c
          /\ IsActive(cm, c)
          /\ cm' = SetActive(cm, c, FALSE)
    /\ cg' = Step(cg)
    /\ UNCHANGED <<cp, cpc, besidesSol>>

\* the search saves the state, outside fix_point
SolSaveState ==
    /\ cpc.at = "idle"
    /\ CanSave(cm)
    /\ cm' = SaveStateOf(cm)
    /\ cg' = [Step(cg) EXCEPT !.snaps = Append(@, cm.v)]
    /\ UNCHANGED <<cp, cpc, besidesSol>>

\* the search restores the state, outside fix_point
SolRestoreState ==
    /\ cpc.at = "idle"
    /\ GetLevel(cm) >= 0
    /\ cm' = RestoreStateOf(cm)
    /\ cg' = [Step(cg) EXCEPT !.op = "restore_state", !.snaps = Front(@),
                              !.exp = Last(cg.snaps),
                              !.revived = \E c \in Cons :
                                 ~IsActive(cm, c) /\ IsActive(RestoreStateOf(cm), c)]
    /\ UNCHANGED <<cp, cpc, besidesSol>>

\* fix_point() is called: _notify_fix_point starts
FixPointEnter ==
    /\ cpc.at = "idle"
    /\ cpc' = At("listeners", 0, -1)
    /\ cg' = [Step(cg) EXCEPT !.fate = NoFate]
    /\ UNCHANGED <<cm, cp, besidesSol>>

\* the listeners returned: the while loop starts
ListenersReturn ==
    /\ cpc.at = "listeners"
    /\ cpc' = At("loop", 0, -1)
    /\ cg' = Step(cg)
    /\ UNCHANGED <<cm, cp, besidesSol>>

\* self._propagate(self._propagation_queue.popleft())
PropagateNext ==
    /\ cpc.at = "loop"
    /\ cp.queue # <<>>
    /\ LET d == MiniCPPopLeft(cp)
           r == MiniCPPropagate(d.s, cm, d.c)
       IN  /\ cp' = r.s
           /\ cpc' = IF r.run THEN At("propagate", d.c, -1) ELSE At("loop", 0, -1)
           /\ cg' = Ranks(r.s, [Step(cg) EXCEPT
                                   !.op = "dequeue", !.c = d.c,
                                   !.fate[d.c] = IF r.run THEN "ran" ELSE "skipped",
                                   !.lastDeq = cg.stamp[d.c], !.stamp[d.c] = 0])
    /\ UNCHANGED <<cm, besidesSol>>

\* c.propagate() returned
PropagateReturn ==
    /\ cpc.at = "propagate"
    /\ cpc' = At("loop", 0, -1)
    /\ cg' = Step(cg)
    /\ UNCHANGED <<cm, cp, besidesSol>>

\* a listener or c.propagate() raised InconsistencyException: the except
\* block of fix_point is entered with it
RaiseInconsistency ==
    /\ cpc.at \in {"listeners", "propagate"}
    /\ cpc' = At("except", 0, cpc.c)
    /\ cg' = [Step(cg) EXCEPT !.raised = cpc.c]
    /\ UNCHANGED <<cm, cp, besidesSol>>

\* the except block: the queue is drained and e is raised again
FixPointRaise ==
    /\ cpc.at = "except"
    /\ cp' = MiniCPDrain(cp)
    /\ cpc' = At("idle", 0, -1)
    /\ cg' = Ranks(MiniCPDrain(cp), [cg EXCEPT !.op = "fix_point_raise", !.result = cpc.e,
                                                  !.drained = Len(cp.queue)])
    /\ UNCHANGED <<cm, besidesSol>>

\* a listener or c.propagate() raised another exception: fix_point does
\* not catch it
RaiseOther ==
    /\ cpc.at \in {"listeners", "propagate"}
    /\ cpc' = At("idle", 0, -1)
    /\ cg' = [Step(cg) EXCEPT !.fate = NoFate]
    /\ UNCHANGED <<cm, cp, besidesSol>>

\* the queue is empty: fix_point returns
FixPointReturn ==
    /\ cpc.at = "loop"
    /\ cp.queue = <<>>
    /\ cpc' = At("idle", 0, -1)
    /\ cg' = [Step(cg) EXCEPT !.op = "fix_point_return"]
    /\ UNCHANGED <<cm, cp, besidesSol>>

SolNext ==
    \/ SolSchedule
    \/ SolSetInactive
    \/ SolSaveState
    \/ SolRestoreState
    \/ FixPointEnter
    \/ ListenersReturn
    \/ PropagateNext
    \/ PropagateReturn
    \/ RaiseInconsistency
    \/ FixPointRaise
    \/ RaiseOther
    \/ FixPointReturn

\* a fresh solver and its constraints; nothing else is in use
SolStart == SolInit /\ SmIdle /\ DomIdle /\ DfsIdle /\ OptIdle /\ NeIdle /\ ConsIdle /\ StkIdle

SpecSolver == SolStart /\ [][SolNext]_vars

InQueue(c) == \E i \in 1..Len(cp.queue) : cp.queue[i] = c

\* C8: in every state of the solver a constraint's scheduled flag is true
\* exactly when the constraint is in the propagation queue, and no
\* constraint is in the queue twice.
C8_ScheduledIffQueued ==
    /\ \A c \in Cons : cp.sched[c] <=> InQueue(c)
    /\ \A i, j \in 1..Len(cp.queue) : cp.queue[i] = cp.queue[j] => i = j

\* inside the propagate() of a constraint that is queued again behind
\* another one, which was deactivated after it was queued
C8_Witness ==
    /\ cpc.at = "propagate"
    /\ Len(cp.queue) = 2
    /\ Last(cp.queue) = cpc.c
    /\ ~IsActive(cm, cp.queue[1])
    /\ cp.sched[cp.queue[1]]

\* C9: within a run of fix_point the constraints leave the queue in the
\* order they were put in: the queue is ordered by rank of enqueueing and
\* the constraint dequeued last was put in before all those in the queue.
C9_Fifo ==
    /\ \A i, j \in 1..Len(cp.queue) :
          i < j => cg.stamp[cp.queue[i]] < cg.stamp[cp.queue[j]]
    /\ \A i \in 1..Len(cp.queue) : cg.lastDeq < cg.stamp[cp.queue[i]]

\* the constraint put in first was dequeued and, in its propagate(), put in
\* again behind the one that was put in second
C9_Witness ==
    /\ cpc.at = "propagate"
    /\ cg.lastDeq = 1
    /\ Len(cp.queue) = 2
    /\ cg.stamp[cp.queue[1]] = 2
    /\ cg.stamp[cp.queue[2]] = 3
    /\ cp.queue[2] = cpc.c

\* C10: when a fix-point listener or a propagate() raises Inconsistency,
\* fix_point ends with the queue empty, no constraint scheduled, and that
\* same exception raised to the caller.
C10_InconsistencyDrains ==
    cg.op = "fix_point_raise"
        => /\ cp.queue = <<>>
           /\ \A c \in Cons : ~cp.sched[c]
           /\ cg.result = cg.raised
           /\ cg.raised >= 0

\* the propagate() of a constraint raised while constraints were queued
C10_Witness ==
    /\ cg.op = "fix_point_raise"
    /\ cg.drained = NumCons
    /\ cg.raised > 0
    /\ cg.result = cg.raised
    /\ cp.queue = <<>>
    /\ cpc.at = "idle"

\* C11 as stated: when fix_point returns normally the queue is empty, no
\* constraint is scheduled, and every constraint dequeued in the call had
\* its propagate() called.
C11_EveryEnqueuedPropagated ==
    cg.op = "fix_point_return"
        => /\ cp.queue = <<>>
           /\ \A c \in Cons : ~cp.sched[c]
           /\ \A c \in Cons : cg.fate[c] # "skipped"

\* C11: when fix_point returns normally the queue is empty, no constraint
\* is scheduled, and every constraint that was in the queue before or
\* during the call has been dequeued and, unless it was inactive when it
\* was dequeued, had its propagate() called after its enqueueing; a
\* constraint whose propagate() was skipped is inactive at the return.
C11_EveryActiveEnqueuedPropagated ==
    cg.op = "fix_point_return"
        => /\ cp.queue = <<>>
           /\ \A c \in Cons : ~cp.sched[c]
           /\ \A c \in Cons : cg.fate[c] = "skipped" => ~IsActive(cm, c)

\* fix_point returns after it ran the propagate() of one constraint and
\* skipped that of another, deactivated while it was in the queue
C11_Witness ==
    /\ cg.op = "fix_point_return"
    /\ \E c \in Cons : cg.fate[c] = "ran"
    /\ \E c \in Cons : cg.fate[c] = "skipped"
    /\ cp.queue = <<>>

\* C12: schedule() puts a constraint in the queue exactly when it is active
\* and not scheduled, so that it ignores a deactivated constraint; fix_point
\* calls the propagate() of a dequeued constraint only when it is active;
\* restore_state gives every active flag the value it had at the matching
\* save_state, so that a constraint deactivated since is active again.
C12_InactiveIgnoredUntilRestore ==
    /\ cg.op = "schedule" => (cg.put <=> (IsActive(cm, cg.c) /\ ~cg.was))
    /\ cg.op = "dequeue" => ((cpc.at = "propagate") <=> IsActive(cm, cg.c))
    /\ cg.op = "restore_state" => cm.v = cg.exp

\* a restore_state made a deactivated constraint active again, which is
\* not scheduled
C12_Witness ==
    /\ cg.op = "restore_state"
    /\ cg.revived
    /\ cm.v = cg.exp
    /\ \E c \in Cons : IsActive(cm, c) /\ ~cp.sched[c]

\* ------------------------------------------------------------------------
\* DFSearch (search.py).  with_new_state(body) is its two halves: the entry
\* (level = get_level(); save_state()) and, when body() has returned, the
\* exit (restore_state_until(level)).
\* ------------------------------------------------------------------------
\* a with_new_state that saves no frame for its body
WithNewStateEntryUnsaved(m) == [level |-> GetLevel(m), m |-> m]

WithNewStateEntry(m) == [level |-> GetLevel(m), m |-> SaveStateOf(m)]

\* a with_new_state that leaves the frame of its body open
WithNewStateExitLeaves(m, level) == m

WithNewStateExit(m, level) == RestoreStateUntilOf(m, level)

\* SearchStatistics
SearchStatisticsNew == [nodes |-> 0, failures |-> 0, solutions |-> 0, completed |-> FALSE]

IncrFailuresTwice(s) == [s EXCEPT !.failures = @ + 2]

IncrFailures(s) == [s EXCEPT !.failures = @ + 1]

IncrNodesTwice(s) == [s EXCEPT !.nodes = @ + 2]

IncrNodes(s) == [s EXCEPT !.nodes = @ + 1]

IncrSolutions(s) == [s EXCEPT !.solutions = @ + 1]

SetCompletedNot(s) == s

SetCompleted(s) == [s EXCEPT !.completed = TRUE]

\* no with_new_state of solve_subject_to or optimize_subject_to is open: a
\* level below the one of a manager without a saved state
NoLevel == GetLevel(TrailerNew) - 1

\* solve_subject_to and optimize_subject_to without their frame
SubjectToEntryUnsaved(m) == [level |-> GetLevel(m), m |-> m]

\* with_new_state(callback) of solve_subject_to and optimize_subject_to
SubjectToEntry(m) == WithNewStateEntry(m)

\* the end of a search: the with_new_state of _solve restores the state,
\* and then the one of solve_subject_to or optimize_subject_to, if any
SolveExit(m, level, outer) ==
    LET inner == WithNewStateExit(m, level)
    IN  IF outer = NoLevel THEN inner ELSE WithNewStateExit(inner, outer)

\* the statistics a call hands back: the object _solve counted in, except
\* for optimize_subject_to, whose callback binds the result of optimize to
\* a name of its own and which returns the object it created itself
Returned(kind, counted) ==
    IF kind = "optimize_subject_to" THEN SearchStatisticsNew ELSE counted

\* ------------------------------------------------------------------------
\* Search specification: calls of solve, solve_subject_to and
\* optimize_subject_to of a DFSearch on a Trailer or a Copier.  The
\* branching, the alternatives, the closure f of the subject_to calls and
\* the limit are the environment.  The DFSearch is built with one of two
\* branchings; solve is called once with the first, and any of the three
\* methods is called, and then a second time, with the second:
\*   "any"      MaxPrims reversible integers start at MaxVal; a branching
\*              returns 0..MaxAlts alternatives or raises
\*              InconsistencyException, an alternative decrements
\*              reversible integers (as the size of a domain goes down
\*              along a branch) and returns or raises; no alternative
\*              starts once the statistics count MaxNodes nodes
\*   "choices"  one reversible integer counts the variables not yet fixed
\*              and starts at Choices; the branching returns two
\*              alternatives while it is positive and none at zero, and
\*              each alternative fixes one variable
\*   fm      the state manager
\*   fstack  the calls in progress: first _solve, then one entry per _dfs
\*           call, each with the number of its alternatives (-1 before the
\*           branching is evaluated), the position of the alternative that
\*           runs or comes next, the level its with_new_state recorded and
\*           the reversible values when its branching was evaluated
\*   fpc     "setup" outside a call, "subject" inside f, "node" at the
\*           start of a _dfs call, "loop" between two alternatives, "alt"
\*           inside an alternative, "done" when the call has returned,
\*           "raised" when it was left by an InconsistencyException
\*   fstats  the SearchStatistics the search counts in
\*   fcall   the DFSearch and its call: the branching, the method called,
\*           the level recorded by the with_new_state of a subject_to call,
\*           the level and the reversible values before the call, the
\*           statistics returned, and for a second call the method and the
\*           solutions of the first
\*   fg      the last step, whether the last restore changed a value, and
\*           what happened in the call: branchings without and with
\*           alternatives, alternatives entered, alternatives ended by an
\*           InconsistencyException, failure notifications, and whether f
\*           raised
\* ------------------------------------------------------------------------
RECURSIVE MakeInts(_, _)
MakeInts(m, n) == IF n = 0 THEN m ELSE MakeInts(MakeStateIntOf(m, MaxVal), n - 1)

\* a _dfs call before its node has an id: parent and at are the arguments
\* parent_id and position, id is node_id
Frame(alts, pos, level, snap) ==
    [alts |-> alts, pos |-> pos, level |-> level, snap |-> snap,
     id |-> -1, parent |-> -1, at |-> -1]

Top == fstack[Len(fstack)]

NoCall ==
    [branching |-> "any", kind |-> "none", level |-> NoLevel, base |-> -1, before |-> <<>>,
     ret |-> SearchStatisticsNew, first |-> "none", prior |-> -1, curr |-> 0]

\* a call of the listeners with parent_id, node_id and position; led is the
\* id of the node whose alternative was running, fresh whether no call of
\* this search had the node_id before
Note(kind, parent, node, at, led) ==
    [kind |-> kind, parent |-> parent, node |-> node, at |-> at, led |-> led,
     fresh |-> node \notin fg.seen]

NoNote == [kind |-> "none", parent |-> -1, node |-> -1, at |-> -1, led |-> -1, fresh |-> TRUE]

Did(op, changed) == [fg EXCEPT !.op = op, !.changed = changed, !.note = NoNote]

NoCounts ==
    [op |-> "init", changed |-> FALSE, empty |-> 0, inner |-> 0, entered |-> 0,
     ended |-> 0, told |-> 0, fraised |-> FALSE, note |-> NoNote, seen |-> {}]

DfsInit ==
    /\ \E m \in {TrailerNew, CopierNew} :
          \E b \in {"any", "choices"} :
             /\ fm = IF b = "any" THEN MakeInts(m, MaxPrims) ELSE MakeStateIntOf(m, Choices)
             /\ fcall = [NoCall EXCEPT !.branching = b]
    /\ fstack = <<>>
    /\ fpc = "setup"
    /\ fstats = SearchStatisticsNew
    /\ fg = NoCounts

\* the model is set up: a reversible integer is decremented before the search
SetupWrite ==
    /\ fpc = "setup"
    /\ \E i \in 1..Len(fm.v) :
          /\ fm.v[i] > 0
          /\ fm' = SetValueOf(fm, i, fm.v[i] - 1)
    /\ fg' = Did("write", FALSE)
    /\ UNCHANGED <<fstack, fpc, fstats, fcall, besidesDfs>>

\* solve_subject_to or optimize_subject_to is called: a SearchStatistics
\* is created, with_new_state(callback) is entered and callback calls f
SubjectToEnter ==
    /\ fpc = "setup"
    /\ fcall.branching = "choices"
    /\ \E k \in {"solve_subject_to", "optimize_subject_to"} :
          LET w == SubjectToEntry(fm)
          IN  /\ fm' = w.m
              /\ fcall' = [fcall EXCEPT !.kind = k, !.level = w.level,
                                        !.base = GetLevel(fm), !.before = fm.v]
    /\ fstats' = SearchStatisticsNew
    /\ fpc' = "subject"
    /\ fg' = [NoCounts EXCEPT !.op = "subject_to"]
    /\ UNCHANGED <<fstack, besidesDfs>>

\* f decrements a reversible integer
SubjectWrite ==
    /\ fpc = "subject"
    /\ \E i \in 1..Len(fm.v) :
          /\ fm.v[i] > 0
          /\ fm' = SetValueOf(fm, i, fm.v[i] - 1)
    /\ fg' = Did("write", FALSE)
    /\ UNCHANGED <<fstack, fpc, fstats, fcall, besidesDfs>>

\* f raises InconsistencyException: callback catches it and returns, the
\* with_new_state restores the state and the statistics are returned
SubjectRaise ==
    /\ fpc = "subject"
    /\ fm' = WithNewStateExit(fm, fcall.level)
    /\ fcall' = [fcall EXCEPT !.ret = Returned(fcall.kind, fstats), !.level = NoLevel]
    /\ fpc' = "done"
    /\ fg' = [Did("subject_raise", WithNewStateExit(fm, fcall.level).v # fm.v)
                 EXCEPT !.fraised = TRUE]
    /\ UNCHANGED <<fstack, fstats, besidesDfs>>

\* _solve, called by solve or after f has returned (optimize creates the
\* SearchStatistics of its own search first): with_new_state(callback) is
\* entered and callback calls _dfs
SolveEnter ==
    /\ fpc \in {"setup", "subject"}
    /\ LET w == WithNewStateEntry(fm)
       IN  /\ fm' = w.m
           /\ fstack' = <<Frame(1, 0, w.level, fm.v), Frame(-1, 0, -1, <<>>)>>
    /\ fcall' = IF fpc = "setup"
                THEN [fcall EXCEPT !.kind = "solve", !.level = NoLevel,
                                   !.base = GetLevel(fm), !.before = fm.v, !.curr = 0]
                ELSE [fcall EXCEPT !.curr = 0]
    /\ fstats' = SearchStatisticsNew
    /\ fpc' = "node"
    /\ fg' = IF fpc = "setup" THEN [NoCounts EXCEPT !.op = "solve"]
             ELSE [Did("solve", FALSE) EXCEPT !.seen = {}]
    /\ UNCHANGED besidesDfs

\* the alternatives the branching returns in the present state
Branches ==
    IF fcall.branching = "any" THEN 0..MaxAlts
    ELSE IF fm.v[1] > 0 THEN {2} ELSE {0}

\* _dfs: the limit answers false, the branching is evaluated and the node
\* takes its id from the counter; with no alternative the node is a
\* solution; the listeners are told of the solution or of the branching
DfsNode ==
    /\ fpc = "node"
    /\ \E n \in Branches :
          /\ fstack' = [fstack EXCEPT ![Len(fstack)] =
                           [Frame(n, 0, -1, fm.v) EXCEPT !.id = fcall.curr,
                                                         !.parent = Top.parent,
                                                         !.at = Top.at]]
          /\ fstats' = IF n = 0 THEN IncrSolutions(fstats) ELSE fstats
          /\ fg' = [Did(IF n = 0 THEN "solution" ELSE "branching", FALSE) EXCEPT
                       !.empty = IF n = 0 THEN @ + 1 ELSE @,
                       !.inner = IF n = 0 THEN @ ELSE @ + 1,
                       !.note = Note(IF n = 0 THEN "solution" ELSE "branch", Top.parent,
                                     fcall.curr, Top.at,
                                     IF Len(fstack) > 2 THEN fstack[Len(fstack) - 1].id ELSE -1),
                       !.seen = @ \cup {fcall.curr}]
    /\ fcall' = [fcall EXCEPT !.curr = @ + 1]
    /\ fpc' = "loop"
    /\ UNCHANGED <<fm, besidesDfs>>

\* the for loop of _dfs: with_new_state(callback) is entered for the next
\* alternative, callback counts the node and calls b()
AltStart ==
    /\ fpc = "loop"
    /\ Top.pos < Top.alts
    /\ fcall.branching = "any" => fstats.nodes < MaxNodes
    /\ fstats' = IncrNodes(fstats)
    /\ LET w == WithNewStateEntry(fm)
       IN  /\ fm' = w.m
           /\ fstack' = [fstack EXCEPT ![Len(fstack)].level = w.level]
    /\ fpc' = "alt"
    /\ fg' = [Did("alt_start", fg.changed) EXCEPT !.entered = @ + 1]
    /\ UNCHANGED <<fcall, besidesDfs>>

\* b() decrements a reversible integer; an alternative of the "choices"
\* branching does so exactly once
AltWrite ==
    /\ fpc = "alt"
    /\ fcall.branching = "choices" => fm.v = Top.snap
    /\ \E i \in 1..Len(fm.v) :
          /\ fm.v[i] > 0
          /\ fm' = SetValueOf(fm, i, fm.v[i] - 1)
    /\ fg' = Did("write", FALSE)
    /\ UNCHANGED <<fstack, fpc, fstats, fcall, besidesDfs>>

\* the alternative ends in the except block of callback: the counter of
\* ids is incremented, the failure is counted, the listeners are told with
\* the parent_id and node_id of the _dfs call the callback belongs to and
\* the position p of the alternative, callback returns and with_new_state
\* restores the state
Failed(stack, op) ==
    /\ fcall' = [fcall EXCEPT !.curr = @ + 1]
    /\ fstats' = IncrFailures(fstats)
    /\ fm' = WithNewStateExit(fm, Last(stack).level)
    /\ fstack' = [stack EXCEPT ![Len(stack)].pos = @ + 1, ![Len(stack)].level = -1]
    /\ fpc' = "loop"
    /\ fg' = [Did(op, WithNewStateExit(fm, Last(stack).level).v # fm.v)
                 EXCEPT !.ended = @ + 1, !.told = @ + 1,
                        !.note = Note("failure", Last(stack).parent, Last(stack).id,
                                      Last(stack).pos, Last(stack).id),
                        !.seen = @ \cup {Last(stack).id}]

\* b() raises InconsistencyException
AltFail ==
    /\ fpc = "alt"
    /\ fcall.branching = "any"
    /\ Failed(fstack, "fail")
    /\ UNCHANGED besidesDfs

\* b() returns: callback calls _dfs for the child node
AltDescend ==
    /\ fpc = "alt"
    /\ fcall.branching = "choices" => fm.v # Top.snap
    /\ fstack' = Append(fstack, [Frame(-1, 0, -1, <<>>) EXCEPT !.parent = Top.id,
                                                                !.at = Top.pos])
    /\ fpc' = "node"
    /\ fg' = Did("descend", FALSE)
    /\ UNCHANGED <<fm, fstats, fcall, besidesDfs>>

\* the branching of a node below the root raises InconsistencyException:
\* the _dfs call is left and the callback of the alternative that called
\* it catches the exception
NodeFail ==
    /\ fpc = "node"
    /\ fcall.branching = "any"
    /\ Len(fstack) > 2
    /\ Failed(Front(fstack), "node_fail")
    /\ UNCHANGED besidesDfs

\* the branching of the root raises InconsistencyException: the callback
\* of _solve does not catch it, its with_new_state restores nothing and
\* solve is left by the exception
RootRaise ==
    /\ fpc = "node"
    /\ fcall.branching = "any"
    /\ Len(fstack) = 2
    /\ fstack' = <<fstack[1]>>
    /\ fpc' = "raised"
    /\ fg' = Did("raise", FALSE)
    /\ UNCHANGED <<fm, fstats, fcall, besidesDfs>>

\* _dfs returns, after a solution or after its last alternative: the
\* callback that called it returns and its with_new_state restores the
\* state; the callback of _solve marks the statistics completed and the
\* call returns
DfsReturn ==
    /\ fpc = "loop"
    /\ Top.pos = Top.alts
    /\ LET rest == Front(fstack)
           up == Last(rest)
           root == Len(rest) = 1
           m == IF root THEN SolveExit(fm, up.level, fcall.level)
                        ELSE WithNewStateExit(fm, up.level)
       IN  /\ fm' = m
           /\ fstack' = [rest EXCEPT ![Len(rest)].pos = @ + 1, ![Len(rest)].level = -1]
           /\ fpc' = IF root THEN "done" ELSE "loop"
           /\ fstats' = IF root THEN SetCompleted(fstats) ELSE fstats
           /\ fcall' = IF root
                       THEN [fcall EXCEPT !.ret = Returned(fcall.kind, SetCompleted(fstats)),
                                          !.level = NoLevel]
                       ELSE fcall
           /\ fg' = Did("return", m.v # fm.v)
    /\ UNCHANGED besidesDfs

\* the limit answers true: StopSearchException leaves every _dfs call and
\* every with_new_state of an alternative, the callback of _solve catches
\* it, the with_new_state of _solve restores the state and the call returns
StopSearch ==
    /\ fpc = "node"
    /\ fm' = SolveExit(fm, fstack[1].level, fcall.level)
    /\ fstack' = <<[fstack[1] EXCEPT !.pos = 1, !.level = -1]>>
    /\ fpc' = "done"
    /\ fcall' = [fcall EXCEPT !.ret = Returned(fcall.kind, fstats), !.level = NoLevel]
    /\ fg' = Did("stop", SolveExit(fm, fstack[1].level, fcall.level).v # fm.v)
    /\ UNCHANGED <<fstats, besidesDfs>>

\* after the first call of a search with the "choices" branching has
\* returned, the program goes on to a second one
CallAgain ==
    /\ fpc = "done"
    /\ fcall.branching = "choices"
    /\ fcall.first = "none"
    /\ fpc' = "setup"
    /\ fstack' = <<>>
    /\ fcall' = [fcall EXCEPT !.first = fcall.kind, !.prior = fcall.ret.solutions,
                              !.kind = "none"]
    /\ fg' = Did("again", FALSE)
    /\ UNCHANGED <<fm, fstats, besidesDfs>>

DfsNext ==
    \/ SetupWrite
    \/ SubjectToEnter
    \/ SubjectWrite
    \/ SubjectRaise
    \/ SolveEnter
    \/ DfsNode
    \/ AltStart
    \/ AltWrite
    \/ AltFail
    \/ AltDescend
    \/ NodeFail
    \/ RootRaise
    \/ DfsReturn
    \/ StopSearch
    \/ CallAgain

\* a search not yet started; nothing else is in use
DfsStart == DfsInit /\ SmIdle /\ DomIdle /\ SolIdle /\ OptIdle /\ NeIdle /\ ConsIdle /\ StkIdle

SpecDfs == DfsStart /\ [][DfsNext]_vars

\* C39: within one solve the node_id passed to the branch, solution and
\* failure notifications is never passed twice, and the parent_id of each
\* notification is the id of the node whose alternative, at the position
\* reported, led to it (-1 for the root); the ids come from a counter that
\* only goes up.
C39_NodeIdsFresh ==
    /\ fg.note.kind # "none" => (fg.note.fresh /\ fg.note.parent = fg.note.led)
    /\ \A n \in fg.seen : n < fcall.curr

\* C3: when an alternative of a node starts, every reversible value is the
\* one it had when the branching of the node was evaluated, whatever the
\* alternatives before it and their subtrees wrote and whether they failed.
C3_AlternativeStartsFromNodeState ==
    fg.op = "alt_start" => fm.v = Top.snap

\* the second alternative of a node below the root starts after the
\* restore that ended the first one changed a value back
C3_Witness ==
    /\ fg.op = "alt_start"
    /\ fg.changed
    /\ Top.pos = 1
    /\ Len(fstack) = 3
    /\ fm.v = Top.snap

\* the solutions of a completed search with the "choices" branching that
\* started with k variables not fixed, and its nodes
Leaves(k) == 2 ^ k

Inner(k) == 2 ^ (k + 1) - 2

\* C13: when a search has run to completion, number_of_solutions is the
\* number of nodes whose branching returned no alternative,
\* number_of_failures the number of alternatives that ended in an
\* InconsistencyException, their sum the number of leaves of the tree (its
\* nodes, the root and one per alternative entered, less the nodes that
\* branched), and number_of_nodes the number of alternatives entered; a
\* search over k independent binary choices counts 2^k solutions, no
\* failure and 2^(k+1) - 2 nodes (8, 0 and 14 for three).
C13_StatisticsCountTheTree ==
    fpc = "done" /\ fstats.completed
        => /\ fstats.solutions = fg.empty
           /\ fstats.failures = fg.ended
           /\ fstats.nodes = fg.entered
           /\ fstats.solutions + fstats.failures = 1 + fg.entered - fg.inner
           /\ fcall.branching = "choices"
                 => /\ fstats.solutions = Leaves(fstack[1].snap[1])
                    /\ fstats.failures = 0
                    /\ fstats.nodes = Inner(fstack[1].snap[1])

\* solve() over Choices binary choices has returned, completed
C13_Witness ==
    /\ fpc = "done"
    /\ fstats.completed
    /\ fcall.branching = "choices"
    /\ fcall.kind = "solve"
    /\ fstack[1].snap[1] = Choices
    /\ fstats.solutions = Leaves(Choices)
    /\ fstats.nodes = Inner(Choices)
    /\ fg.inner = Leaves(Choices) - 1

\* the frames open in a search: the one of a subject_to call, the one of
\* _solve and one per alternative in progress
Frames == (IF fcall.level = NoLevel THEN 0 ELSE 1) + Len(fstack) - 1

\* C14: the alternatives of a node run strictly from left to right: when
\* the loop of a node is about to start alternative k+1, the last thing
\* that happened is the end of alternative k, by a failure or by the return
\* of the _dfs call under it, and no frame of alternative k or of its
\* subtree is open any more; inside an alternative, exactly the frames of
\* the alternatives on the path from the root are open.
C14_LeftToRight ==
    /\ fpc = "loop"
          => /\ GetLevel(fm) = fcall.base + Frames
             /\ Top.pos = 0 => fg.op \in {"branching", "solution"}
             /\ Top.pos > 0 => fg.op \in {"fail", "node_fail", "return"}
             /\ Top.pos <= Top.alts
    /\ fpc = "alt"
          => /\ GetLevel(fm) = fcall.base + Frames + 1
             /\ Top.pos < Top.alts
             /\ Top.level = GetLevel(fm) - 1

\* the second alternative of the root starts after the subtree under the
\* first, a node that branched and a solution under it, has been left
C14_Witness ==
    /\ fg.op = "alt_start"
    /\ Len(fstack) = 2
    /\ Top.pos = 1
    /\ fg.empty >= 1
    /\ fg.inner >= 2
    /\ GetLevel(fm) = fcall.base + Frames + 1

\* C15: each InconsistencyException raised by an alternative or under it is
\* caught by the closest alternative: the failures go up by exactly one and
\* the failure listeners are told once, the frame of the alternative is
\* restored (the reversible values are those of the node again), the
\* search goes on in the loop of the node with the next position, and the
\* position of a node never goes back to an alternative that failed.
C15_FailureCountedAndSearchGoesOn ==
    /\ fpc \in {"node", "loop", "alt", "done"}
          => fstats.failures = fg.ended /\ fg.told = fg.ended
    /\ fg.op \in {"fail", "node_fail"}
          => /\ fpc = "loop"
             /\ Top.pos >= 1
             /\ Top.pos <= Top.alts
             /\ fm.v = Top.snap
             /\ GetLevel(fm) = fcall.base + Frames
             /\ fstats.failures >= 1

\* the first alternative of a node has failed after writing, a sibling is
\* left to run
C15_Witness ==
    /\ fg.op = "fail"
    /\ fg.changed
    /\ Top.pos = 1
    /\ Top.alts = 2
    /\ fstats.failures = 1
    /\ fpc = "loop"

\* C16: when the limit answers true at the entry of a node, the call
\* returns instead of raising, with the statistics counted so far and not
\* completed, and the state manager is at the level and the reversible
\* values it had before the call; the statistics are completed exactly when
\* the _dfs call of the root has returned.
C16_LimitStopsAndRestores ==
    /\ fg.op = "stop"
          => /\ fpc = "done"
             /\ ~fstats.completed
             /\ fcall.kind \in {"solve", "solve_subject_to"} => fcall.ret = fstats
             /\ GetLevel(fm) = fcall.base
             /\ fm.v = fcall.before
    /\ fpc \in {"done", "raised"} => (fstats.completed <=> fg.op = "return")
    /\ fpc \in {"subject", "node", "loop", "alt"} => ~fstats.completed

\* solve() was stopped by the limit below the root, after a solution was
\* counted, and the restore changed a value back
C16_Witness ==
    /\ fg.op = "stop"
    /\ fcall.kind = "solve"
    /\ fg.changed
    /\ fcall.ret.nodes >= 2
    /\ fcall.ret.solutions >= 1
    /\ ~fcall.ret.completed
    /\ fm.v = fcall.before

\* C17: solve_subject_to(limit, f) leaves the state manager at the level
\* and the reversible values it had before the call, whatever f and the
\* search wrote, so that the next call starts from that state; when f
\* raises InconsistencyException the statistics returned count no
\* solution, no node and no failure.
C17_SubjectToRestores ==
    /\ fpc = "done" /\ fcall.kind = "solve_subject_to"
          => /\ GetLevel(fm) = fcall.base
             /\ fm.v = fcall.before
             /\ fcall.ret = fstats
             /\ fg.fraised => fcall.ret = SearchStatisticsNew
    /\ fg.op = "again" /\ fcall.first = "solve_subject_to"
          => /\ GetLevel(fm) = fcall.base
             /\ fm.v = fcall.before

\* after solve_subject_to, in which f fixed one of Choices variables, found
\* half the solutions, solve() finds all of them
C17_Witness ==
    /\ fpc = "done"
    /\ fcall.kind = "solve"
    /\ fcall.first = "solve_subject_to"
    /\ fcall.prior = Leaves(Choices - 1)
    /\ fstats.completed
    /\ fstats.solutions = Leaves(Choices)

\* f raised in solve_subject_to after writing
C17_WitnessRaised ==
    /\ fpc = "done"
    /\ fcall.kind = "solve_subject_to"
    /\ fg.fraised
    /\ fg.changed
    /\ fcall.ret = SearchStatisticsNew

\* C18: the statistics optimize_subject_to returns are those of the search
\* it ran.
C18_OptimizeSubjectToReturnsItsSearch ==
    fpc = "done" /\ fcall.kind = "optimize_subject_to" => fcall.ret = fstats

\* ------------------------------------------------------------------------
\* Minimize and DFSearch.optimize (search.py), Solver.post (solver.py) and
\* the constraints of factory.equal(x, v) and factory.not_equal(x, v=v).
\* ------------------------------------------------------------------------
\* _MAX_VALUE, the bound of a new Minimize
MaxValue == 2147483647

\* a Minimize whose fix-point listener does nothing
MinimizeOnFixPointIdle(m, s, bound) == [m |-> m, s |-> s, ev |-> <<>>]

\* the fix-point listener of Minimize: x.remove_above(self._bound)
MinimizeOnFixPoint(m, s, bound) == DomainRemoveAbove(m, s, bound)

\* Minimize.tighten() with x fixed: the new bound
MinimizeTighten(m, s) == SSMax(m, s) - 1

\* c.post() for the constraint of an alternative: factory.equal(x, v)
\* fixes x to v (left), factory.not_equal(x, v=v) removes v from x (right)
PostAlternative(m, s, pos, v) ==
    IF pos = 0 THEN DomainRemoveAllBut(m, s, v) ELSE DomainRemove(m, s, v)

\* ------------------------------------------------------------------------
\* Optimization specification: one optimize(obj) of a DFSearch with
\* obj = Minimize(x), x a variable with the domain {DomOfs, ...,
\* DomOfs+DomSize-1} on a Trailer or a Copier.  The branching is the
\* environment: at a node where x is fixed it returns no alternative; where
\* x is not fixed it returns the two alternatives post(equal(x, v)) and
\* post(not_equal(x, v)) for some v of the domain, or no alternative at all.
\*   om, ox  the manager and the sparse set of x
\*   obound  the _bound of the Minimize
\*   ostack  the calls in progress: first _solve, then one entry per _dfs
\*           call with the value its alternatives are about, their number
\*           (-1 before the branching is evaluated), the position of the
\*           next one and the level its with_new_state recorded
\*   opc     "setup" before optimize(), "node" at the start of a _dfs call,
\*           "loop" between two alternatives, "alt" at the start of an
\*           alternative, "posted" before its fix_point(), "raised" when it
\*           has raised InconsistencyException, "done" after optimize(),
\*           "error" when tighten() has raised RuntimeError
\*   og      the last step, the number of solutions, and the value of x at
\*           the last solution and at the one before
\* ------------------------------------------------------------------------
Node(v, alts, pos, level) == [v |-> v, alts |-> alts, pos |-> pos, level |-> level]

OTop == ostack[Len(ostack)]

OptDid(op) == [og EXCEPT !.op = op]

OptInit ==
    /\ \E m \in {TrailerNew, CopierNew} :
          /\ om = SparseSetNew(m, DomSize, DomOfs).m
          /\ ox = SparseSetNew(m, DomSize, DomOfs).s
    /\ obound = MaxValue
    /\ ostack = <<>>
    /\ opc = "setup"
    /\ og = [op |-> "init", sols |-> 0, last |-> 0, prev |-> 0]

\* the model is set up: post(not_equal(x, v)) before the search, whose
\* fix_point() finds nothing above the bound of the new objective
OptSetup ==
    /\ opc = "setup"
    /\ \E v \in Universe :
          LET r == PostAlternative(om, ox, 1, v)
          IN  /\ Outcome(r.ev) = "return"
              /\ om' = r.m
              /\ ox' = r.s
    /\ og' = OptDid("post")
    /\ UNCHANGED <<obound, ostack, opc, besidesOpt>>

\* optimize: tighten is made a solution listener; _solve enters
\* with_new_state(callback) and callback calls _dfs
OptimizeEnter ==
    /\ opc = "setup"
    /\ LET w == WithNewStateEntry(om)
       IN  /\ om' = w.m
           /\ ostack' = <<Node(0, 1, 0, w.level), Node(0, -1, 0, -1)>>
    /\ opc' = "node"
    /\ og' = OptDid("optimize")
    /\ UNCHANGED <<ox, obound, besidesOpt>>

\* _dfs at a node where x is fixed: the branching returns no alternative,
\* the solution is counted and tighten() lowers the bound
OptSolution ==
    /\ opc = "node"
    /\ SSSize(om, ox) = 1
    /\ obound' = MinimizeTighten(om, ox)
    /\ ostack' = [ostack EXCEPT ![Len(ostack)] = Node(0, 0, 0, -1)]
    /\ opc' = "loop"
    /\ og' = [og EXCEPT !.op = "solution", !.sols = @ + 1, !.last = SSMax(om, ox),
                        !.prev = og.last]
    /\ UNCHANGED <<om, ox, besidesOpt>>

\* _dfs at a node where x is not fixed: the branching returns no
\* alternative, the solution is counted and tighten() raises RuntimeError,
\* which nothing catches
OptTightenRaises ==
    /\ opc = "node"
    /\ SSSize(om, ox) > 1
    /\ opc' = "error"
    /\ og' = OptDid("RuntimeError")
    /\ UNCHANGED <<om, ox, obound, ostack, besidesOpt>>

\* _dfs at a node where x is not fixed: the branching returns the two
\* alternatives about a value v
OptBranch ==
    /\ opc = "node"
    /\ SSSize(om, ox) > 1
    /\ \E v \in Contained(om, ox) :
          ostack' = [ostack EXCEPT ![Len(ostack)] = Node(v, 2, 0, -1)]
    /\ opc' = "loop"
    /\ og' = OptDid("branching")
    /\ UNCHANGED <<om, ox, obound, besidesOpt>>

\* the for loop of _dfs: with_new_state(callback) is entered for the next
\* alternative, callback calls b() and b() calls Solver.post(c)
OptAltStart ==
    /\ opc = "loop"
    /\ OTop.pos < OTop.alts
    /\ LET w == WithNewStateEntry(om)
       IN  /\ om' = w.m
           /\ ostack' = [ostack EXCEPT ![Len(ostack)].level = w.level]
    /\ opc' = "alt"
    /\ og' = OptDid("alt_start")
    /\ UNCHANGED <<ox, obound, besidesOpt>>

\* Solver.post: c.post() returns or raises InconsistencyException
OptAltPost ==
    /\ opc = "alt"
    /\ LET r == PostAlternative(om, ox, OTop.pos, OTop.v)
       IN  /\ om' = r.m
           /\ ox' = r.s
           /\ opc' = IF Outcome(r.ev) = "return" THEN "posted" ELSE "raised"
    /\ og' = OptDid("post")
    /\ UNCHANGED <<obound, ostack, besidesOpt>>

\* Solver.post: fix_point() calls the listener of the objective and finds
\* the queue empty; when it returns, b() returns and callback calls _dfs
\* for the child node
OptAltFixPoint ==
    /\ opc = "posted"
    /\ LET r == MinimizeOnFixPoint(om, ox, obound)
       IN  /\ om' = r.m
           /\ ox' = r.s
           /\ opc' = IF Outcome(r.ev) = "return" THEN "node" ELSE "raised"
           /\ ostack' = IF Outcome(r.ev) = "return"
                        THEN Append(ostack, Node(0, -1, 0, -1))
                        ELSE ostack
           /\ og' = IF Outcome(r.ev) = "return"
                    THEN OptDid("fix_point")
                    ELSE OptDid("fix_point_raise")
    /\ UNCHANGED <<obound, besidesOpt>>

\* the InconsistencyException of b() is caught by callback, which returns,
\* and with_new_state restores the state
OptAltFail ==
    /\ opc = "raised"
    /\ om' = WithNewStateExit(om, OTop.level)
    /\ ostack' = [ostack EXCEPT ![Len(ostack)].pos = @ + 1, ![Len(ostack)].level = -1]
    /\ opc' = "loop"
    /\ og' = OptDid("fail")
    /\ UNCHANGED <<ox, obound, besidesOpt>>

\* _dfs returns: the callback that called it returns and its with_new_state
\* restores the state; the callback of _solve ends the search
OptReturn ==
    /\ opc = "loop"
    /\ OTop.pos = OTop.alts
    /\ LET rest == Front(ostack)
           up == Last(rest)
       IN  /\ om' = WithNewStateExit(om, up.level)
           /\ ostack' = [rest EXCEPT ![Len(rest)].pos = @ + 1, ![Len(rest)].level = -1]
           /\ opc' = IF Len(rest) = 1 THEN "done" ELSE "loop"
    /\ og' = OptDid("return")
    /\ UNCHANGED <<ox, obound, besidesOpt>>

OptNext ==
    \/ OptSetup
    \/ OptimizeEnter
    \/ OptSolution
    \/ OptTightenRaises
    \/ OptBranch
    \/ OptAltStart
    \/ OptAltPost
    \/ OptAltFixPoint
    \/ OptAltFail
    \/ OptReturn

\* a variable and its objective, no search yet; nothing else is in use
OptStart == OptInit /\ SmIdle /\ DomIdle /\ SolIdle /\ DfsIdle /\ NeIdle /\ ConsIdle /\ StkIdle

SpecOpt == OptStart /\ [][OptNext]_vars

\* C19: in optimize with Minimize(x), where every alternative posts through
\* Solver.post, the bound after a solution x = v is v - 1, each solution
\* has a smaller x than the one before, and after every fix_point that
\* returns from then on the maximum of x is at most v - 1.
C19_SolutionsDecrease ==
    /\ og.op = "solution"
          => /\ obound = og.last - 1
             /\ og.sols >= 2 => og.last < og.prev
    /\ og.sols >= 1 => obound = og.last - 1
    /\ og.op = "fix_point" /\ og.sols >= 1 => SSMax(om, ox) <= og.last - 1

\* a second solution, after the listener of the objective has cut the
\* first solution's value from a domain that the restore had given back
C19_Witness ==
    /\ og.op = "solution"
    /\ og.sols >= 2
    /\ og.last < og.prev
    /\ obound = og.last - 1
    /\ og.prev < DomOfs + DomSize - 1

\* ------------------------------------------------------------------------
\* NotEqual (constraint.py) between two IntVarImpl, with the solver's queue.
\* A variable is its sparse set and the size of its _on_fix stack, a
\* primitive of the manager; the constraint is its _active primitive (1 for
\* True), its _scheduled flag and its place in the queue.  The record c
\* holds the places of these primitives, the offset v of the constraint,
\* and the flags.
\* ------------------------------------------------------------------------
IsFixed(m, s) == SSSize(m, s) = 1

\* Solver.schedule(c)
NeSchedule(c, m) ==
    IF m.v[c.active] = 1 /\ ~c.sched
    THEN [c EXCEPT !.sched = TRUE, !.queued = TRUE]
    ELSE c

\* _DomainListener.fix: the constraints of _on_fix are scheduled, after the
\* calls of a mutator that were made before it
Notify(c, m, ev, onFix) ==
    IF Occurs(Delivered(ev), "fix") /\ m.v[onFix] > 0 THEN NeSchedule(c, m) ELSE c

\* x.propagate_on_fix(c): StateStack.push
PropagateOnFix(m, onFix) == SetValueOf(m, onFix, m.v[onFix] + 1)

\* a mutator of x or of y called by NotEqual or by a branch
Change(m, x, y, c, var, r) ==
    [m |-> r.m,
     x |-> IF var = "x" THEN r.s ELSE x,
     y |-> IF var = "y" THEN r.s ELSE y,
     c |-> Notify(c, r.m, r.ev, IF var = "x" THEN c.xfix ELSE c.yfix),
     outcome |-> Outcome(r.ev)]

\* NotEqual.post
NotEqualPost(m, x, y, c) ==
    IF IsFixed(m, y)
    THEN Change(m, x, y, c, "x", DomainRemove(m, x, SSMin(m, y) + c.v))
    ELSE IF IsFixed(m, x)
    THEN Change(m, x, y, c, "y", DomainRemove(m, y, SSMin(m, x) - c.v))
    ELSE [m |-> PropagateOnFix(PropagateOnFix(m, c.xfix), c.yfix),
          x |-> x, y |-> y, c |-> c, outcome |-> "return"]

\* a NotEqual that stays active after it has propagated
NotEqualDoneStays(r, c) == r.m

\* the end of NotEqual.propagate: set_active(False)
NotEqualDone(r, c) ==
    IF r.outcome = "return" THEN SetValueOf(r.m, c.active, 0) ELSE r.m

\* NotEqual.propagate
NotEqualPropagate(m, x, y, c) ==
    LET r == IF IsFixed(m, y)
             THEN Change(m, x, y, c, "x", DomainRemove(m, x, SSMin(m, y) + c.v))
             ELSE Change(m, x, y, c, "y", DomainRemove(m, y, SSMin(m, x) - c.v))
    IN  [r EXCEPT !.m = NotEqualDone(r, c)]

\* ------------------------------------------------------------------------
\* NotEqual specification: x and y with the domain {DomOfs, ...,
\* DomOfs+DomSize-1} on a Trailer or a Copier and one NotEqual(x, y, v).
\* The program posts the constraint at the root and calls fix_point.  Then
\* it searches: it saves the state at a fix-point, changes x and y by fix
\* and remove as the constraints posted by its alternatives and closures
\* do, at most MaxPosts of them before a fix_point, and restores the state,
\* after a fix_point or at once when a call has raised
\* InconsistencyException.
\*   nm      the manager
\*   nx, ny  the sparse sets of x and y
\*   nc      the constraint and the solver: the places of the primitives,
\*           v, whether the constraint is posted, queued and scheduled,
\*           the changes that await their fix_point, and "idle" or
\*           "failed" after an InconsistencyException
\*   ng      the last step, and for a fix_point whether NotEqual.propagate
\*           ran, whether it was called with neither variable fixed and
\*           whether it then removed a value
\* ------------------------------------------------------------------------
Offsets == {0, 1}

\* the calls of fix and remove a closure makes before the fix_point
MaxPosts == 2

NeDid(op) == [op |-> op, ran |-> FALSE, unfixed |-> FALSE, other |-> FALSE]

NeInit ==
    /\ \E m \in {TrailerNew, CopierNew} :
          \E v \in Offsets :
             LET X == SparseSetNew(m, DomSize, DomOfs)
                 mx == MakeStateIntOf(X.m, 0)
                 Y == SparseSetNew(mx, DomSize, DomOfs)
                 my == MakeStateIntOf(Y.m, 0)
             IN  /\ nm = MakeStateIntOf(my, 1)
                 /\ nx = X.s
                 /\ ny = Y.s
                 /\ nc = [xfix |-> Len(X.m.v) + 1, yfix |-> Len(Y.m.v) + 1,
                          active |-> Len(my.v) + 1, v |-> v, posted |-> FALSE,
                          queued |-> FALSE, sched |-> FALSE, pending |-> 0,
                          pc |-> "idle"]
    /\ ng = NeDid("init")

Took(r, op) ==
    /\ nm' = r.m
    /\ nx' = r.x
    /\ ny' = r.y
    /\ nc' = [r.c EXCEPT !.pending = IF r.outcome = "return" THEN @ + 1 ELSE 0,
                         !.pc = IF r.outcome = "return" THEN "idle" ELSE "failed"]
    /\ ng' = NeDid(op)

\* x.fix(val) or x.remove(val) in a search frame, by the post() of an
\* equal(x, val) or a not_equal(x, val)
VarXChange ==
    /\ nc.pc = "idle"
    /\ nc.posted
    /\ GetLevel(nm) >= 0
    /\ nc.pending < MaxPosts
    /\ \E val \in Universe :
          \/ Took(Change(nm, nx, ny, nc, "x", DomainRemoveAllBut(nm, nx, val)), "fix")
          \/ Took(Change(nm, nx, ny, nc, "x", DomainRemove(nm, nx, val)), "remove")
    /\ UNCHANGED besidesNe

\* y.fix(val) or y.remove(val)
VarYChange ==
    /\ nc.pc = "idle"
    /\ nc.posted
    /\ GetLevel(nm) >= 0
    /\ nc.pending < MaxPosts
    /\ \E val \in Universe :
          \/ Took(Change(nm, nx, ny, nc, "y", DomainRemoveAllBut(nm, ny, val)), "fix")
          \/ Took(Change(nm, nx, ny, nc, "y", DomainRemove(nm, ny, val)), "remove")
    /\ UNCHANGED besidesNe

\* c.post(), of Solver.post(c) or Solver.post(c, False), at the root
NePost ==
    /\ nc.pc = "idle"
    /\ ~nc.posted
    /\ GetLevel(nm) = -1
    /\ Took(NotEqualPost(nm, nx, ny, [nc EXCEPT !.posted = TRUE]), "post")
    /\ UNCHANGED besidesNe

\* fix_point(): there is no listener; the constraint, if queued, is taken
\* from the queue and its flag cleared, and it propagates if it is active.
\* When propagate() puts it in the queue again, by fixing the other
\* variable, it is taken again and found inactive.  When propagate()
\* raises, the except block empties the queue.
NeFixPoint ==
    /\ nc.pc = "idle"
    /\ LET c == [nc EXCEPT !.queued = FALSE, !.sched = FALSE]
           run == nc.queued /\ nm.v[nc.active] = 1
           r == IF run
                THEN NotEqualPropagate(nm, nx, ny, c)
                ELSE [m |-> nm, x |-> nx, y |-> ny, c |-> c, outcome |-> "return"]
       IN  /\ nm' = r.m
           /\ nx' = r.x
           /\ ny' = r.y
           /\ nc' = [c EXCEPT !.pending = 0,
                              !.pc = IF r.outcome = "return" THEN "idle" ELSE "failed"]
           /\ ng' = [op |-> IF r.outcome = "return" THEN "fix_point_return"
                                                    ELSE "fix_point_raise",
                     ran |-> run,
                     unfixed |-> run /\ ~IsFixed(nm, nx) /\ ~IsFixed(nm, ny),
                     other |-> /\ run
                               /\ ~IsFixed(nm, nx)
                               /\ ~IsFixed(nm, ny)
                               /\ SSContains(nm, ny, SSMin(nm, nx) - nc.v)]
    /\ UNCHANGED besidesNe

\* save_state(), by the with_new_state of a search: every change made so
\* far was followed by a fix_point
NeSaveState ==
    /\ nc.pc = "idle"
    /\ nc.pending = 0
    /\ GetLevel(nm) = -1
    /\ CanSave(nm)
    /\ nm' = SaveStateOf(nm)
    /\ ng' = NeDid("save_state")
    /\ UNCHANGED <<nx, ny, nc, besidesNe>>

\* restore_state(), by the with_new_state of a search, after a fix_point
\* or after an InconsistencyException
NeRestoreState ==
    /\ nc.pending = 0
    /\ GetLevel(nm) >= 0
    /\ nm' = RestoreStateOf(nm)
    /\ nc' = [nc EXCEPT !.pc = "idle"]
    /\ ng' = NeDid("restore_state")
    /\ UNCHANGED <<nx, ny, besidesNe>>

NeNext ==
    \/ VarXChange
    \/ VarYChange
    \/ NePost
    \/ NeFixPoint
    \/ NeSaveState
    \/ NeRestoreState

\* two fresh variables and a constraint not yet posted; nothing else is in
\* use
NeStart == NeInit /\ SmIdle /\ DomIdle /\ SolIdle /\ DfsIdle /\ OptIdle /\ ConsIdle /\ StkIdle

SpecNe == NeStart /\ [][NeNext]_vars

\* C20: with NotEqual(x, y, v) posted, whenever fix_point has returned
\* normally and x is fixed, the domain of y does not hold x - v, and when y
\* is fixed the domain of x does not hold y + v; and the constraint has
\* removed no value but these.
C20_NotEqualPrunes ==
    ng.op = "fix_point_return" /\ nc.posted
        => /\ IsFixed(nm, nx) => ~SSContains(nm, ny, SSMin(nm, nx) - nc.v)
           /\ IsFixed(nm, ny) => ~SSContains(nm, nx, SSMin(nm, ny) + nc.v)
           /\ ~ng.other

\* C32: whenever fix_point calls NotEqual.propagate, x or y is fixed, after
\* every sequence of posts, changes of the variables, fix_point calls,
\* InconsistencyException failures and save_state and restore_state.
C32_PropagateHasFixedSide == ng.ran => ~ng.unfixed

\* C33: whenever Solver.post(c) with its fix_point has returned or has
\* raised InconsistencyException, in c.post() or in fix_point, the queue is
\* empty and no constraint is marked scheduled.  c.post() is the calls of fix
\* and remove since the last fix_point.
C33_PostLeavesQueueEmpty ==
    (nc.pc = "failed" \/ ng.op = "fix_point_return") => (~nc.queued /\ ~nc.sched)

\* ------------------------------------------------------------------------
\* Views (int_var.py): IntVarViewOffset {x + o}, IntVarViewOpposite {-x} and
\* IntVarViewMul {a * x}.  A view is a record of its kind and its constant;
\* it has no state of its own and calls its variable x, an IntVarImpl.
\* ------------------------------------------------------------------------
MaxOfs == 2
MaxMul == 3

\* int(v / a), a > 0: the quotient rounded towards zero
Trunc(v, a) == IF v >= 0 THEN v \div a ELSE -((-v) \div a)

\* IntVarViewMul._floor_div and _ceil_div
FloorDiv(a, b) == IF a < 0 /\ a % b # 0 THEN Trunc(a, b) - 1 ELSE Trunc(a, b)

CeilDiv(a, b) == IF a > 0 /\ a % b # 0 THEN Trunc(a, b) + 1 ELSE Trunc(a, b)

\* a multiplication view that does not test whether a divides v
ViewContainsAnyMultiple(y, m, s, v) ==
    CASE y.kind = "offset" -> SSContains(m, s, v - y.c)
      [] y.kind = "opposite" -> SSContains(m, s, -v)
      [] y.kind = "mul" -> SSContains(m, s, Trunc(v, y.c))

\* y.contains(v)
ViewContains(y, m, s, v) ==
    CASE y.kind = "offset" -> SSContains(m, s, v - y.c)
      [] y.kind = "opposite" -> SSContains(m, s, -v)
      [] y.kind = "mul" -> IF v % y.c # 0 THEN FALSE
                           ELSE SSContains(m, s, Trunc(v, y.c))

Untouched(m, s) == [m |-> m, s |-> s, ev |-> <<>>]

\* y.remove(v)
ViewRemove(y, m, s, v) ==
    CASE y.kind = "offset" -> DomainRemove(m, s, v - y.c)
      [] y.kind = "opposite" -> DomainRemove(m, s, -v)
      [] y.kind = "mul" -> IF v % y.c = 0 THEN DomainRemove(m, s, Trunc(v, y.c))
                           ELSE Untouched(m, s)

\* y.fix(v): a multiplication view raises InconsistencyException itself when
\* a does not divide v
ViewFix(y, m, s, v) ==
    CASE y.kind = "offset" -> DomainRemoveAllBut(m, s, v - y.c)
      [] y.kind = "opposite" -> DomainRemoveAllBut(m, s, -v)
      [] y.kind = "mul" -> IF v % y.c = 0 THEN DomainRemoveAllBut(m, s, Trunc(v, y.c))
                           ELSE [m |-> m, s |-> s, ev |-> <<"empty">>]

\* y.remove_below(v), x not empty
ViewRemoveBelow(y, m, s, v) ==
    CASE y.kind = "offset" -> DomainRemoveBelow(m, s, v - y.c)
      [] y.kind = "opposite" -> DomainRemoveAbove(m, s, -v)
      [] y.kind = "mul" -> DomainRemoveBelow(m, s, CeilDiv(v, y.c))

\* y.remove_above(v), x not empty
ViewRemoveAbove(y, m, s, v) ==
    CASE y.kind = "offset" -> DomainRemoveAbove(m, s, v - y.c)
      [] y.kind = "opposite" -> DomainRemoveBelow(m, s, -v)
      [] y.kind = "mul" -> DomainRemoveAbove(m, s, FloorDiv(v, y.c))

\* ------------------------------------------------------------------------
\* View specification: x with the domain {-DomOfs, ..., DomSize-DomOfs-1},
\* which holds negative values, on a Trailer or a Copier; x is changed
\* through views of it, at the root and between a save_state at the root and its
\* restore_state.
\*   dm, ds   the manager and the sparse set of x
\*   dlast    the last call and how it ended
\* ------------------------------------------------------------------------
Views ==
    {[kind |-> "offset", c |-> o] : o \in {-MaxOfs, MaxOfs}}
        \cup {[kind |-> "opposite", c |-> 0]}
        \cup {[kind |-> "mul", c |-> a] : a \in {MaxMul - 1, MaxMul}}

\* the arguments of the mutators
ViewArgs == (-DomSize)..DomSize

\* the values asked of contains
Asked == (-(MaxMul * DomSize + MaxOfs))..(MaxMul * DomSize + MaxOfs)

Called(name, outcome) == [op |-> name, outcome |-> outcome]

ViewInit ==
    /\ \E m \in {TrailerNew, CopierNew} :
          /\ dm = SparseSetNew(m, DomSize, -DomOfs).m
          /\ ds = SparseSetNew(m, DomSize, -DomOfs).s
    /\ dsnaps = <<>>
    /\ dlast = Called("init", "return")

YRemove ==
    /\ \E y \in Views, v \in ViewArgs :
          LET r == ViewRemove(y, dm, ds, v)
          IN  /\ dm' = r.m
              /\ ds' = r.s
              /\ dlast' = Called("remove", Outcome(r.ev))
    /\ UNCHANGED <<dsnaps, besidesDom>>

YFix ==
    /\ \E y \in Views, v \in ViewArgs :
          LET r == ViewFix(y, dm, ds, v)
          IN  /\ dm' = r.m
              /\ ds' = r.s
              /\ dlast' = Called("fix", Outcome(r.ev))
    /\ UNCHANGED <<dsnaps, besidesDom>>

\* the min() of an empty domain raises ValueError
YRemoveBelow ==
    /\ \E y \in Views, v \in ViewArgs :
          IF SSIsEmpty(dm, ds)
          THEN /\ dlast' = Called("remove_below", "ValueError")
               /\ UNCHANGED <<dm, ds>>
          ELSE LET r == ViewRemoveBelow(y, dm, ds, v)
               IN  /\ dm' = r.m
                   /\ ds' = r.s
                   /\ dlast' = Called("remove_below", Outcome(r.ev))
    /\ UNCHANGED <<dsnaps, besidesDom>>

YRemoveAbove ==
    /\ \E y \in Views, v \in ViewArgs :
          IF SSIsEmpty(dm, ds)
          THEN /\ dlast' = Called("remove_above", "ValueError")
               /\ UNCHANGED <<dm, ds>>
          ELSE LET r == ViewRemoveAbove(y, dm, ds, v)
               IN  /\ dm' = r.m
                   /\ ds' = r.s
                   /\ dlast' = Called("remove_above", Outcome(r.ev))
    /\ UNCHANGED <<dsnaps, besidesDom>>

YSaveState ==
    /\ CanSave(dm)
    /\ GetLevel(dm) = -1
    /\ dm' = SaveStateOf(dm)
    /\ dlast' = Called("save_state", "return")
    /\ UNCHANGED <<ds, dsnaps, besidesDom>>

YRestoreState ==
    /\ GetLevel(dm) >= 0
    /\ dm' = RestoreStateOf(dm)
    /\ dlast' = Called("restore_state", "return")
    /\ UNCHANGED <<ds, dsnaps, besidesDom>>

ViewNext ==
    \/ YRemove
    \/ YFix
    \/ YRemoveBelow
    \/ YRemoveAbove
    \/ YSaveState
    \/ YRestoreState

ViewStart == ViewInit /\ SmIdle /\ SolIdle /\ DfsIdle /\ OptIdle /\ NeIdle /\ ConsIdle /\ StkIdle

SpecView == ViewStart /\ [][ViewNext]_vars

\* the value of the view for the value u of x
Image(y, u) ==
    CASE y.kind = "offset" -> u + y.c
      [] y.kind = "opposite" -> -u
      [] y.kind = "mul" -> y.c * u

\* C27: for every view y of x and every v, y.contains(v) if and only if v
\* is the image of a value of x, so never for a v that the factor of a
\* multiplication view does not divide; in every state reached by
\* removals through views, save_state and restore_state.
C27_ViewContains ==
    \A y \in Views : \A v \in Asked :
        ViewContains(y, dm, ds, v) <=> \E u \in SSMembers(dm, ds) : Image(y, u) = v

\* after a restore_state, x holds a negative value u and has lost another
\* value: a multiplication view holds 2u and neither 2u + 1 nor 2u - 1
C27_Witness ==
    /\ dlast.op = "restore_state"
    /\ SSSize(dm, ds) = DomSize - 1
    /\ \E u \in SSMembers(dm, ds) :
          /\ u < 0
          /\ ViewContains([kind |-> "mul", c |-> 2], dm, ds, 2 * u)
          /\ ~ViewContains([kind |-> "mul", c |-> 2], dm, ds, 2 * u + 1)
          /\ ~ViewContains([kind |-> "mul", c |-> 2], dm, ds, 2 * u - 1)

\* ------------------------------------------------------------------------
\* Constraints on variables seen as sets of values.  The domain of an
\* IntVarImpl is the set of its values; a mutator gives the new set and the
\* calls SparseSetDomain makes on the listener, in their order.  A store
\* holds what the state manager restores: the domains d, the stacks subs of
\* the constraints subscribed to each variable (fix for _on_fix, dom for
\* _on_domain, bound for _on_bound), the _active flags act and the
\* reversible integers aux of the constraint; and what it does not
\* restore: the propagation queue q and the _scheduled flags sch.  raised
\* tells that InconsistencyException is on its way up: the calls that follow
\* in the code are then not made.
\* ------------------------------------------------------------------------
MinOf(D) == CHOOSE u \in D : \A w \in D : u <= w

MaxOf(D) == CHOOSE u \in D : \A w \in D : u >= w

\* SparseSetDomain.remove, remove_all_but, remove_below, remove_above on a
\* domain that is not empty
Mutate(D, op, v) ==
    CASE op = "remove" ->
           IF v \in D
           THEN [d |-> D \ {v},
                 ev |-> If(D = {v}, "empty") \o <<"change">>
                        \o If(MaxOf(D) = v, "change_max") \o If(MinOf(D) = v, "change_min")
                        \o If(Cardinality(D) = 2, "fix")]
           ELSE [d |-> D, ev |-> <<>>]
      [] op = "fix" ->
           IF v \in D
           THEN IF D # {v}
                THEN [d |-> {v},
                      ev |-> <<"fix", "change">>
                             \o If(MaxOf(D) # v, "change_max") \o If(MinOf(D) # v, "change_min")]
                ELSE [d |-> D, ev |-> <<>>]
           ELSE [d |-> {}, ev |-> <<"empty">>]
      [] op = "remove_below" ->
           IF MinOf(D) < v
           THEN LET E == {u \in D : u >= v}
                IN  [d |-> E,
                     ev |-> IF E = {} THEN <<"empty">>
                            ELSE IF Cardinality(E) = 1 THEN <<"fix", "change_min", "change">>
                            ELSE <<"change_min", "change">>]
           ELSE [d |-> D, ev |-> <<>>]
      [] op = "remove_above" ->
           IF MaxOf(D) > v
           THEN LET E == {u \in D : u <= v}
                IN  [d |-> E,
                     ev |-> IF E = {} THEN <<"empty">>
                            ELSE IF Cardinality(E) = 1 THEN <<"fix", "change_max", "change">>
                            ELSE <<"change_max", "change">>]
           ELSE [d |-> D, ev |-> <<>>]

\* MiniCP.schedule(c)
Schedule(st, c) ==
    IF st.act[c] /\ ~st.sch[c]
    THEN [st EXCEPT !.sch[c] = TRUE, !.q = Append(@, c)]
    ELSE st

\* _DomainListener._schedule_all
RECURSIVE ScheduleAll(_, _)
ScheduleAll(st, cs) ==
    IF cs = <<>> THEN st ELSE ScheduleAll(Schedule(st, Head(cs)), Tail(cs))

\* the stack of the variable that a call of the listener schedules
StackOf(e) ==
    CASE e = "fix" -> "fix"
      [] e = "change" -> "dom"
      [] e \in {"change_min", "change_max"} -> "bound"

\* the calls of one mutator on the _DomainListener of x
RECURSIVE Listen(_, _, _)
Listen(st, x, ev) ==
    IF ev = <<>> THEN st
    ELSE Listen(ScheduleAll(st, st.subs[x][StackOf(Head(ev))]), x, Tail(ev))

\* a mutator whose listener is told of a change when no value was removed
TellUnchanged(st, x, op, v) ==
    IF st.raised THEN st
    ELSE LET r == Mutate(st.d[x], op, v)
             t == [st EXCEPT !.d[x] = r.d]
         IN  IF Occurs(r.ev, "empty") THEN [t EXCEPT !.raised = TRUE]
             ELSE Listen(t, x, IF r.ev = <<>> THEN <<"change", "change_min">> ELSE r.ev)

\* x.remove(v), x.fix(v), x.remove_below(v), x.remove_above(v): empty() is
\* the first call of a mutator that empties the domain, and it raises
Tell(st, x, op, v) ==
    IF st.raised THEN st
    ELSE LET r == Mutate(st.d[x], op, v)
             t == [st EXCEPT !.d[x] = r.d]
         IN  IF Occurs(r.ev, "empty") THEN [t EXCEPT !.raised = TRUE] ELSE Listen(t, x, r.ev)

\* x.propagate_on_fix(c), x.propagate_on_domain_change(c),
\* x.propagate_on_bound_change(c); and when_fixed(f), when_domain_change(f),
\* when_bound_change(f) for the ConstraintClosure c of f
Sub(st, x, stack, c) ==
    IF st.raised THEN st ELSE [st EXCEPT !.subs[x][stack] = Append(@, c)]

\* c.set_active(False)
SetInactive(st, c) == IF st.raised THEN st ELSE [st EXCEPT !.act[c] = FALSE]

\* the mutators on sets and the mutators of SparseSetDomain on the sparse
\* set make the same calls and leave the same values: an invariant of the
\* domain specification
SetsAgree ==
    \A v \in Args :
        /\ LET r == DomainRemove(dm, ds, v)
               a == Mutate(Contained(dm, ds), "remove", v)
           IN  a.ev = r.ev /\ a.d = Contained(r.m, r.s)
        /\ LET r == DomainRemoveAllBut(dm, ds, v)
               a == Mutate(Contained(dm, ds), "fix", v)
           IN  a.ev = r.ev /\ a.d = Contained(r.m, r.s)
        /\ ~SSIsEmpty(dm, ds)
              => /\ LET r == DomainRemoveBelow(dm, ds, v)
                        a == Mutate(Contained(dm, ds), "remove_below", v)
                    IN  a.ev = r.ev /\ a.d = Contained(r.m, r.s)
                 /\ LET r == DomainRemoveAbove(dm, ds, v)
                        a == Mutate(Contained(dm, ds), "remove_above", v)
                    IN  a.ev = r.ev /\ a.d = Contained(r.m, r.s)

\* ------------------------------------------------------------------------
\* Equal(x, y), x the variable 1 and y the variable 2; 1 is the closure of
\* callback1, subscribed to x, and 2 the closure of callback2
\* ------------------------------------------------------------------------
Larger(a, b) == IF a >= b THEN a ELSE b

Smaller(a, b) == IF a <= b THEN a ELSE b

\* Equal._bounds_intersect
BoundsIntersect(st) ==
    IF st.raised THEN st
    ELSE LET newMin == Larger(MinOf(st.d[1]), MinOf(st.d[2]))
             newMax == Smaller(MaxOf(st.d[1]), MaxOf(st.d[2]))
             s1 == Tell(st, 1, "remove_below", newMin)
             s2 == Tell(s1, 1, "remove_above", newMax)
             s3 == Tell(s2, 2, "remove_below", newMin)
         IN  Tell(s3, 2, "remove_above", newMax)

\* the loop of Equal._prune_equals over the values that fill_array gave;
\* the order of the values does not change what the loop leaves
RECURSIVE PruneLoop(_, _, _, _)
PruneLoop(st, from, to, vals) ==
    IF vals = {} \/ st.raised THEN st
    ELSE LET v == MinOf(vals)
         IN  PruneLoop(IF v \in st.d[from] THEN st ELSE Tell(st, to, "remove", v),
                       from, to, vals \ {v})

\* an Equal that prunes nothing beyond the bounds
PruneEqualsBoundsOnly(st, from, to) == st

\* Equal._prune_equals
PruneEquals(st, from, to) == IF st.raised THEN st ELSE PruneLoop(st, from, to, st.d[to])

\* Equal.post
EqualPost(st) ==
    IF Cardinality(st.d[2]) = 1 THEN Tell(st, 1, "fix", MinOf(st.d[2]))
    ELSE IF Cardinality(st.d[1]) = 1 THEN Tell(st, 2, "fix", MinOf(st.d[1]))
    ELSE LET s1 == BoundsIntersect(st)
             s2 == PruneEquals(s1, 2, 1)
             s3 == PruneEquals(s2, 1, 2)
         IN  Sub(Sub(s3, 1, "dom", 1), 2, "dom", 2)

\* callback1 and callback2 of Equal.post
EqualCallback(st, c) ==
    IF c = 1 THEN PruneEquals(BoundsIntersect(st), 1, 2)
    ELSE PruneEquals(BoundsIntersect(st), 2, 1)

\* ------------------------------------------------------------------------
\* LessOrEqual(x, y), the constraint 1
\* ------------------------------------------------------------------------
\* a LessOrEqual that takes itself for entailed after it has propagated
LessOrEqualPropagateOnce(st) ==
    LET s1 == Tell(st, 1, "remove_above", MaxOf(st.d[2]))
        s2 == IF s1.raised THEN s1 ELSE Tell(s1, 2, "remove_below", MinOf(s1.d[1]))
    IN  SetInactive(s2, 1)

\* LessOrEqual.propagate
LessOrEqualPropagate(st) ==
    LET s1 == Tell(st, 1, "remove_above", MaxOf(st.d[2]))
        s2 == IF s1.raised THEN s1 ELSE Tell(s1, 2, "remove_below", MinOf(s1.d[1]))
    IN  IF s2.raised THEN s2
        ELSE IF MaxOf(s2.d[1]) <= MinOf(s2.d[2]) THEN SetInactive(s2, 1) ELSE s2

\* LessOrEqual.post
LessOrEqualPost(st) == LessOrEqualPropagate(Sub(Sub(st, 1, "bound", 1), 2, "bound", 1))

\* ------------------------------------------------------------------------
\* IsEqual(b, x, v) and IsLessOrEqual(b, x, v): b is the variable 1, a
\* BoolVarImpl over {0, 1}, and x the variable 2
\* ------------------------------------------------------------------------
IsTrue(D) == MinOf(D) = 1

IsFalse(D) == MaxOf(D) = 0

\* an IsEqual that does not look at b
IsEqualPropagateFromX(st, v) ==
    IF v \notin st.d[2] THEN SetInactive(Tell(st, 1, "fix", 0), 1)
    ELSE IF Cardinality(st.d[2]) = 1 THEN SetInactive(Tell(st, 1, "fix", 1), 1)
    ELSE st

\* IsEqual.propagate
IsEqualPropagate(st, v) ==
    IF IsTrue(st.d[1]) THEN SetInactive(Tell(st, 2, "fix", v), 1)
    ELSE IF IsFalse(st.d[1]) THEN SetInactive(Tell(st, 2, "remove", v), 1)
    ELSE IF v \notin st.d[2] THEN SetInactive(Tell(st, 1, "fix", 0), 1)
    ELSE IF Cardinality(st.d[2]) = 1 THEN SetInactive(Tell(st, 1, "fix", 1), 1)
    ELSE st

\* IsEqual.post
IsEqualPost(st, v) ==
    LET s == IsEqualPropagate(st, v)
    IN  IF s.raised \/ ~s.act[1] THEN s ELSE Sub(Sub(s, 2, "dom", 1), 1, "fix", 1)

\* callback of IsLessOrEqual.post, the closure 1, subscribed to the fix of b
IsLessOrEqualCallback(st, v) ==
    IF IsTrue(st.d[1]) THEN Tell(st, 2, "remove_above", v)
    ELSE Tell(st, 2, "remove_below", v + 1)

\* a callback2 that never decides b
IsLessOrEqualCallback2Idle(st, v) == st

\* callback2 of IsLessOrEqual.post, the closure 2, subscribed to the bounds
\* of x
IsLessOrEqualCallback2(st, v) ==
    IF MaxOf(st.d[2]) <= v THEN Tell(st, 1, "fix", 1)
    ELSE IF MinOf(st.d[2]) > v THEN Tell(st, 1, "fix", 0)
    ELSE st

\* IsLessOrEqual.post
IsLessOrEqualPost(st, v) ==
    IF IsTrue(st.d[1]) THEN Tell(st, 2, "remove_above", v)
    ELSE IF IsFalse(st.d[1]) THEN Tell(st, 2, "remove_below", v + 1)
    ELSE IF MaxOf(st.d[2]) <= v THEN Tell(st, 1, "fix", 1)
    ELSE IF MinOf(st.d[2]) > v THEN Tell(st, 1, "fix", 0)
    ELSE Sub(Sub(st, 1, "fix", 1), 2, "bound", 2)

\* ------------------------------------------------------------------------
\* Element2D(mat, x, y, z), x the variable 1, y the variable 2 and z the
\* variable 3; the triples, the cursors and the support counts are counted
\* from 0 as in the source, the sequences that hold them from 1

\* the insertion of one triple behind the triples that are not larger: the
\* sort of the constructor is stable
RECURSIVE InsertByZ(_, _)
InsertByZ(s, t) ==
    IF s = <<>> THEN <<t>>
    ELSE IF Head(s).z <= t.z THEN <<Head(s)>> \o InsertByZ(Tail(s), t)
    ELSE <<t>> \o s

RECURSIVE SortByZ(_)
SortByZ(ts) == IF ts = <<>> THEN <<>> ELSE InsertByZ(SortByZ(Front(ts)), Last(ts))

\* Element2D.__init__: the triples of the matrix by rows, sorted by z
Element2DNew(mat) ==
    LET n == Len(mat)
        m == Len(mat[1])
    IN  [n |-> n, m |-> m, mat |-> mat,
         xyz |-> SortByZ([k \in 1..(n * m) |->
                            [x |-> (k - 1) \div m, y |-> (k - 1) % m,
                             z |-> mat[((k - 1) \div m) + 1][((k - 1) % m) + 1]]])]

\* Element2D.__init__: the reversible cursors and support counts
Element2DState(e) ==
    [low |-> 0, up |-> Len(e.xyz) - 1,
     cols |-> [i \in 1..e.n |-> e.m], rows |-> [j \in 1..e.m |-> e.n]]

\* StateInt.decrement of a support count, and the removal of the row or
\* the column k from the variable x when the count is 0
Decremented(st, side, x, k) ==
    IF st.aux[side][k + 1] = 0 THEN Tell(st, x, "remove", k) ELSE st

\* Element2D._update_supports(lost_pos), for the row or for the column
SupportLost(st, side, x, k) ==
    IF st.raised THEN st
    ELSE Decremented([st EXCEPT !.aux[side][k + 1] = @ - 1], side, x, k)

\* Element2D._update_supports(lost_pos)
UpdateSupports(st, e, pos) ==
    SupportLost(SupportLost(st, "cols", 1, e.xyz[pos + 1].x), "rows", 2, e.xyz[pos + 1].y)

\* a propagate that looks at z only
LostNever(st, t) == FALSE

\* the triple t has lost its row or its column: the tests of x and y in the
\* loops of Element2D.propagate
Lost(st, t) == t.x \notin st.d[1] \/ t.y \notin st.d[2]

\* the first loop of Element2D.propagate; mem holds the locals l and u
RECURSIVE LowLoop(_, _, _)
RECURSIVE LowStep(_, _, _)
LowLoop(st, e, zMin) ==
    IF st.raised THEN st
    ELSE IF e.xyz[st.mem.l + 1].z < zMin \/ Lost(st, e.xyz[st.mem.l + 1])
    THEN LowStep(UpdateSupports(st, e, st.mem.l), e, zMin)
    ELSE st

\* l += 1 and the test of l > u
LowStep(st, e, zMin) ==
    IF st.raised THEN st
    ELSE IF st.mem.l + 1 > st.mem.u THEN [st EXCEPT !.mem.l = @ + 1, !.raised = TRUE]
    ELSE LowLoop([st EXCEPT !.mem.l = @ + 1], e, zMin)

\* the second loop of Element2D.propagate
RECURSIVE UpLoop(_, _, _)
RECURSIVE UpStep(_, _, _)
UpLoop(st, e, zMax) ==
    IF st.raised THEN st
    ELSE IF e.xyz[st.mem.u + 1].z > zMax \/ Lost(st, e.xyz[st.mem.u + 1])
    THEN UpStep(UpdateSupports(st, e, st.mem.u), e, zMax)
    ELSE st

\* u -= 1 and the test of l > u
UpStep(st, e, zMax) ==
    IF st.raised THEN st
    ELSE IF st.mem.l > st.mem.u - 1 THEN [st EXCEPT !.mem.u = @ - 1, !.raised = TRUE]
    ELSE UpLoop([st EXCEPT !.mem.u = @ - 1], e, zMax)

\* the end of Element2D.propagate: the bounds of z and the cursors
Tightened(st, e) ==
    IF st.raised THEN st
    ELSE Tell(Tell(st, 3, "remove_below", e.xyz[st.mem.l + 1].z),
              3, "remove_above", e.xyz[st.mem.u + 1].z)

Committed(st) ==
    IF st.raised THEN st ELSE [st EXCEPT !.aux.low = st.mem.l, !.aux.up = st.mem.u]

\* Element2D.propagate
Element2DPropagate(st, e) ==
    IF st.raised THEN st
    ELSE Committed(Tightened(UpLoop(LowLoop([st EXCEPT !.mem = [l |-> st.aux.low, u |-> st.aux.up]],
                                            e, MinOf(st.d[3])),
                                    e, MaxOf(st.d[3])), e))

\* the bounds of x and y in Element2D.post
Element2DBounds(st, e) ==
    Tell(Tell(Tell(Tell(st, 1, "remove_below", 0), 1, "remove_above", e.n - 1),
              2, "remove_below", 0), 2, "remove_above", e.m - 1)

\* Element2D.post
Element2DPost(st, e) ==
    Element2DPropagate(Sub(Sub(Sub(Element2DBounds(st, e), 1, "dom", 1), 2, "dom", 1),
                           3, "bound", 1), e)

\* ------------------------------------------------------------------------
\* Sum(x, y) and Sum(x, v): the terms are the variables 1..n, the last of
\* them the view -y or the variable fixed to -v that the constructor
\* appends; _fixed, a plain list, is not restored

\* the terms of the sum
NumTerms(st) == Len(st.d)

\* Sum.__init__
SumState == [nFixed |-> 0, sumFixed |-> 0]

SumMem(n) == [fixed |-> [i \in 1..n |-> i - 1]]

\* the first loop of Sum.propagate, from the position i on: acc holds nf,
\* sum_min and sum_max
RECURSIVE SumScan(_, _, _)
SumScan(st, i, acc) ==
    IF i >= NumTerms(st) THEN [st |-> st, acc |-> acc]
    ELSE LET idx == st.mem.fixed[i + 1]
             D == st.d[idx + 1]
             seen == [acc EXCEPT !.sumMin = @ + MinOf(D), !.sumMax = @ + MaxOf(D)]
         IN  IF Cardinality(D) = 1
             THEN SumScan([st EXCEPT !.aux.sumFixed = @ + MinOf(D),
                                     !.mem.fixed[i + 1] = st.mem.fixed[acc.nf + 1],
                                     !.mem.fixed[acc.nf + 1] = idx],
                          i + 1, [seen EXCEPT !.nf = @ + 1])
             ELSE SumScan(st, i + 1, seen)

\* the second loop of Sum.propagate, from the position i on; was holds the
\* domains that the first loop has read into _min and _max
RECURSIVE SumFilter(_, _, _, _)
SumFilter(st, i, acc, was) ==
    IF st.raised \/ i >= NumTerms(st) THEN st
    ELSE LET idx == st.mem.fixed[i + 1]
             s1 == Tell(st, idx + 1, "remove_above", -(acc.sumMin - MinOf(was[idx + 1])))
             s2 == Tell(s1, idx + 1, "remove_below", -(acc.sumMax - MaxOf(was[idx + 1])))
         IN  SumFilter(s2, i + 1, acc, was)

\* a Sum.propagate that never fails on its bounds
SumPropagateUnchecked(st) ==
    IF st.raised THEN st
    ELSE LET a == SumScan(st, st.aux.nFixed,
                          [nf |-> st.aux.nFixed, sumMin |-> st.aux.sumFixed,
                           sumMax |-> st.aux.sumFixed])
             s == [a.st EXCEPT !.aux.nFixed = a.acc.nf]
         IN  SumFilter(s, a.acc.nf, a.acc, st.d)

\* the first loop without the swap that moves a term found fixed into the
\* prefix of _fixed
RECURSIVE SumScanNoSwap(_, _, _)
SumScanNoSwap(st, i, acc) ==
    IF i >= NumTerms(st) THEN [st |-> st, acc |-> acc]
    ELSE IF Cardinality(st.d[st.mem.fixed[i + 1] + 1]) = 1
    THEN SumScanNoSwap([st EXCEPT !.aux.sumFixed = @ + MinOf(st.d[st.mem.fixed[i + 1] + 1])],
                       i + 1,
                       [acc EXCEPT !.sumMin = @ + MinOf(st.d[st.mem.fixed[i + 1] + 1]),
                                   !.sumMax = @ + MaxOf(st.d[st.mem.fixed[i + 1] + 1]),
                                   !.nf = @ + 1])
    ELSE SumScanNoSwap(st, i + 1,
                       [acc EXCEPT !.sumMin = @ + MinOf(st.d[st.mem.fixed[i + 1] + 1]),
                                   !.sumMax = @ + MaxOf(st.d[st.mem.fixed[i + 1] + 1])])

\* a Sum.propagate that counts the fixed terms and leaves _fixed as it is
SumPropagateNoSwap(st) ==
    IF st.raised THEN st
    ELSE LET a == SumScanNoSwap(st, st.aux.nFixed,
                                [nf |-> st.aux.nFixed, sumMin |-> st.aux.sumFixed,
                                 sumMax |-> st.aux.sumFixed])
             s == [a.st EXCEPT !.aux.nFixed = a.acc.nf]
         IN  IF a.acc.sumMin > 0 \/ a.acc.sumMax < 0 THEN [s EXCEPT !.raised = TRUE]
             ELSE SumFilter(s, a.acc.nf, a.acc, st.d)

\* Sum.propagate
SumPropagate(st) ==
    IF st.raised THEN st
    ELSE LET a == SumScan(st, st.aux.nFixed,
                          [nf |-> st.aux.nFixed, sumMin |-> st.aux.sumFixed,
                           sumMax |-> st.aux.sumFixed])
             s == [a.st EXCEPT !.aux.nFixed = a.acc.nf]
         IN  IF a.acc.sumMin > 0 \/ a.acc.sumMax < 0 THEN [s EXCEPT !.raised = TRUE]
             ELSE SumFilter(s, a.acc.nf, a.acc, st.d)

\* the subscriptions of Sum.post
RECURSIVE SumSubscribe(_, _)
SumSubscribe(st, i) ==
    IF i > NumTerms(st) THEN st ELSE SumSubscribe(Sub(st, i, "bound", 1), i + 1)

\* Sum.post
SumPost(st) == SumPropagate(SumSubscribe(st, 1))

\* ------------------------------------------------------------------------
\* Constraint specifications: two variables and one constraint of them,
\* Equal(x, y), LessOrEqual(x, y), IsEqual(b, x, v) or IsLessOrEqual(b, x,
\* v).  The program changes the variables by remove, fix, remove_below and
\* remove_above, as the constraints it posts for its model and for its
\* branches do, at most MaxPosts times before a fix_point; it posts the
\* constraint at the root; it saves the state at a fix-point and restores
\* it after a fix_point or at once when a call has raised
\* InconsistencyException.
\*   ks       the store
\*   kc       the constraint: its kind and its constant v, whether it is
\*            posted, the changes that await their fix_point, and "idle"
\*            or "failed" after an InconsistencyException
\*   kframes  what save_state recorded, one entry per open frame
\*   kg       the last step and, for post and fix_point, the domains before
\*            it
\* ------------------------------------------------------------------------
MaxFrames == 1

Reified(kind) == kind \in {"IsEqual", "IsLessOrEqual"}

\* the constants of the reified constraints and the arguments of the calls
Consts == (DomOfs - 1)..(DomOfs + DomSize - 1)

Mutators == {"remove", "fix", "remove_below", "remove_above"}

StoreNew(doms) ==
    [d |-> doms,
     subs |-> [x \in 1..Len(doms) |-> [fix |-> <<>>, dom |-> <<>>, bound |-> <<>>]],
     act |-> <<TRUE, TRUE>>, aux |-> <<>>, mem |-> <<>>,
     q |-> <<>>, sch |-> <<FALSE, FALSE>>, raised |-> FALSE]

\* what save_state records and restore_state gives back
Reversible(st) == [d |-> st.d, subs |-> st.subs, act |-> st.act, aux |-> st.aux]

Restored(st, f) == [st EXCEPT !.d = f.d, !.subs = f.subs, !.act = f.act, !.aux = f.aux]

\* c.post()
PostOf(kind, st, v) ==
    CASE kind = "Equal" -> EqualPost(st)
      [] kind = "LessOrEqual" -> LessOrEqualPost(st)
      [] kind = "IsEqual" -> IsEqualPost(st, v)
      [] kind = "IsLessOrEqual" -> IsLessOrEqualPost(st, v)
      [] kind = "Element2D" -> Element2DPost(st, v)
      [] kind = "Sum" -> SumPost(st)

\* c.propagate() for the constraint or closure c
PropagateOf(kind, st, c, v) ==
    CASE kind = "Equal" -> EqualCallback(st, c)
      [] kind = "LessOrEqual" -> LessOrEqualPropagate(st)
      [] kind = "IsEqual" -> IsEqualPropagate(st, v)
      [] kind = "IsLessOrEqual" ->
           IF c = 1 THEN IsLessOrEqualCallback(st, v) ELSE IsLessOrEqualCallback2(st, v)
      [] kind = "Element2D" -> Element2DPropagate(st, v)
      [] kind = "Sum" -> SumPropagate(st)

\* the except block of fix_point
RECURSIVE Drain(_)
Drain(st) ==
    IF st.q = <<>> THEN st
    ELSE Drain([st EXCEPT !.q = Tail(@), !.sch[Head(st.q)] = FALSE])

\* MiniCP.fix_point with MiniCP._propagate; there is no listener
RECURSIVE FixPoint(_, _, _)
FixPoint(kind, st, v) ==
    IF st.raised THEN Drain(st)
    ELSE IF st.q = <<>> THEN st
    ELSE LET c == Head(st.q)
             s == [st EXCEPT !.q = Tail(@), !.sch[c] = FALSE]
         IN  FixPoint(kind, IF s.act[c] THEN PropagateOf(kind, s, c, v) ELSE s, v)

KDid(op, pre) == [op |-> op, pre |-> pre]

KInit(kind) ==
    /\ \E v \in (IF Reified(kind) THEN Consts ELSE {0}) :
          /\ kc = [kind |-> kind, v |-> v, posted |-> FALSE, pending |-> 0, pc |-> "idle"]
          /\ ks = StoreNew(<<IF Reified(kind) THEN {0, 1} ELSE Universe, Universe>>)
    /\ kframes = <<>>
    /\ kg = KDid("init", <<>>)

\* the end of a call that may have raised
Ended(st, op, counts) ==
    /\ ks' = [st EXCEPT !.raised = FALSE]
    /\ kc' = [kc EXCEPT !.posted = @ \/ op = "post",
                        !.pending = IF st.raised \/ ~counts THEN 0 ELSE @ + 1,
                        !.pc = IF st.raised THEN "failed" ELSE "idle"]
    /\ kg' = KDid(IF st.raised THEN op \o "_raise" ELSE op \o "_return",
                   IF op = "change" THEN <<>> ELSE ks.d)

\* a mutator of x, y or b called by the program
KChange ==
    /\ kc.pc = "idle"
    /\ kc.pending < MaxPosts
    /\ \E x \in 1..2, op \in Mutators, val \in Consts :
          Ended(Tell(ks, x, op, val), "change", TRUE)
    /\ UNCHANGED <<kframes, besidesCons>>

\* c.post(), of MiniCP.post, at the root
KPost ==
    /\ kc.pc = "idle"
    /\ ~kc.posted
    /\ kframes = <<>>
    /\ Ended(PostOf(kc.kind, ks, kc.v), "post", TRUE)
    /\ UNCHANGED <<kframes, besidesCons>>

\* fix_point()
KFixPoint ==
    /\ kc.pc = "idle"
    /\ Ended(FixPoint(kc.kind, ks, kc.v), "fix_point", FALSE)
    /\ UNCHANGED <<kframes, besidesCons>>

\* save_state(), at a fix-point
KSaveState ==
    /\ kc.pc = "idle"
    /\ kc.pending = 0
    /\ Len(kframes) < MaxFrames
    /\ kframes' = Append(kframes, Reversible(ks))
    /\ kg' = KDid("save_state", <<>>)
    /\ UNCHANGED <<ks, kc, besidesCons>>

\* restore_state(), after a fix_point or an InconsistencyException
KRestoreState ==
    /\ kc.pending = 0
    /\ kframes # <<>>
    /\ ks' = Restored(ks, Last(kframes))
    /\ kframes' = Front(kframes)
    /\ kc' = [kc EXCEPT !.pc = "idle"]
    /\ kg' = KDid("restore_state", <<>>)
    /\ UNCHANGED besidesCons

ConsNext ==
    \/ KChange
    \/ KPost
    \/ KFixPoint
    \/ KSaveState
    \/ KRestoreState

ConsIdleElse == SmIdle /\ DomIdle /\ SolIdle /\ DfsIdle /\ OptIdle /\ NeIdle /\ StkIdle

\* one specification for each constraint
EqualStart == KInit("Equal") /\ ConsIdleElse

SpecEqual == EqualStart /\ [][ConsNext]_vars

LessOrEqualStart == KInit("LessOrEqual") /\ ConsIdleElse

SpecLessOrEqual == LessOrEqualStart /\ [][ConsNext]_vars

IsEqualStart == KInit("IsEqual") /\ ConsIdleElse

SpecIsEqual == IsEqualStart /\ [][ConsNext]_vars

IsLessOrEqualStart == KInit("IsLessOrEqual") /\ ConsIdleElse

SpecIsLessOrEqual == IsLessOrEqualStart /\ [][ConsNext]_vars

\* a normal return of fix_point with the constraint of this kind posted
Settled(kind) == kc.kind = kind /\ kc.posted /\ kg.op = "fix_point_return"

\* C21: with Equal(x, y) posted, whenever fix_point has returned normally x
\* and y have the same domain, whatever was removed from either of them.
C21_EqualDomains == Settled("Equal") => ks.d[1] = ks.d[2]

\* the program took a value that was neither bound from x after the post,
\* and fix_point took it from y; two values are left
C21_Witness ==
    /\ Settled("Equal")
    /\ kg.pre[1] # kg.pre[2]
    /\ ks.d[1] = ks.d[2]
    /\ Cardinality(ks.d[1]) = 2
    /\ \E u \in Universe : u \notin ks.d[1] /\ MinOf(ks.d[1]) < u /\ u < MaxOf(ks.d[1])

\* C22: with LessOrEqual(x, y) posted, whenever fix_point has returned
\* normally max(x) <= max(y) and min(y) >= min(x); post and fix_point take
\* from x only values above every value of y and from y only values below
\* every value of x; and the constraint is inactive only where max(x) <=
\* min(y).
C22_LessOrEqual ==
    kc.kind = "LessOrEqual" /\ kc.posted
        => /\ kg.op = "fix_point_return"
                 => /\ MaxOf(ks.d[1]) <= MaxOf(ks.d[2])
                    /\ MinOf(ks.d[2]) >= MinOf(ks.d[1])
           /\ kg.op \in {"fix_point_return", "post_return"}
                 => /\ \A a \in kg.pre[1] : (\E b \in kg.pre[2] : a <= b) => a \in ks.d[1]
                    /\ \A b \in kg.pre[2] : (\E a \in kg.pre[1] : a <= b) => b \in ks.d[2]
           /\ ~ks.act[1] /\ kc.pc = "idle" => MaxOf(ks.d[1]) <= MinOf(ks.d[2])

\* fix_point took the largest value from x, and the constraint is still
\* active
C22_Witness ==
    /\ kc.kind = "LessOrEqual" /\ kc.posted
    /\ kg.op = "fix_point_return"
    /\ kg.pre[1] # ks.d[1]
    /\ MaxOf(ks.d[1]) > MinOf(ks.d[2])
    /\ ks.act[1]

\* the constraint is inactive after a fix_point
C22_WitnessEntailed ==
    /\ kc.kind = "LessOrEqual" /\ kc.posted
    /\ kg.op = "fix_point_return"
    /\ ~ks.act[1]
    /\ kframes # <<>>

\* C23: with IsEqual(b, x, v) posted, whenever fix_point has returned
\* normally: b true implies x = {v}, b false implies v not in x, v not in
\* x implies b false, x = {v} implies b true.
C23_IsEqual ==
    Settled("IsEqual")
        => /\ IsTrue(ks.d[1]) => ks.d[2] = {kc.v}
           /\ IsFalse(ks.d[1]) => kc.v \notin ks.d[2]
           /\ kc.v \notin ks.d[2] => IsFalse(ks.d[1])
           /\ ks.d[2] = {kc.v} => IsTrue(ks.d[1])

\* b was fixed to true after the post and fix_point fixed x to v
C23_Witness ==
    /\ Settled("IsEqual")
    /\ ks.d[1] = {1} /\ kg.pre[1] = {1}
    /\ ks.d[2] = {kc.v} /\ kg.pre[2] # {kc.v}

\* x lost v after the post and fix_point fixed b to false
C23_WitnessFromX ==
    /\ Settled("IsEqual")
    /\ ks.d[1] = {0} /\ kg.pre[1] = {0, 1}
    /\ kc.v \notin kg.pre[2]

\* the constraint was posted with b already false
C23_WitnessPosted ==
    /\ kc.kind = "IsEqual"
    /\ kg.op = "post_return"
    /\ kg.pre[1] = {0}
    /\ kc.v \in kg.pre[2] /\ kc.v \notin ks.d[2]

\* C24: with IsLessOrEqual(b, x, v) posted, whenever fix_point has returned
\* normally: b true implies max(x) <= v, b false implies min(x) > v,
\* max(x) <= v implies b true, min(x) > v implies b false.
C24_IsLessOrEqual ==
    Settled("IsLessOrEqual")
        => /\ IsTrue(ks.d[1]) => MaxOf(ks.d[2]) <= kc.v
           /\ IsFalse(ks.d[1]) => MinOf(ks.d[2]) > kc.v
           /\ MaxOf(ks.d[2]) <= kc.v => IsTrue(ks.d[1])
           /\ MinOf(ks.d[2]) > kc.v => IsFalse(ks.d[1])

\* x lost its values above v after the post and fix_point fixed b to true
C24_Witness ==
    /\ Settled("IsLessOrEqual")
    /\ ks.d[1] = {1} /\ kg.pre[1] = {0, 1}
    /\ MaxOf(kg.pre[2]) <= kc.v
    /\ Cardinality(kg.pre[2]) >= 2

\* b was fixed to false after the post and fix_point took the values up to
\* v from x
C24_WitnessFromB ==
    /\ Settled("IsLessOrEqual")
    /\ kg.pre[1] = {0}
    /\ MinOf(kg.pre[2]) <= kc.v
    /\ MinOf(ks.d[2]) > kc.v

\* ------------------------------------------------------------------------
\* Search specifications: Element2D is posted on x, y and z, or Sum on its
\* terms, and a depth-first search with the first_fail branching on the
\* variables runs to its end.
\*   ks       the store
\*   kc       the constraint and the position of the search: "idle"
\*            before the post, "node" at a node, "fail" after an
\*            InconsistencyException, "back" after the return of a node
\*   kframes  one entry per open node: the state saved by with_new_state,
\*            the variable and the value of its branches, and whether the
\*            left branch is the open one
\*   kg       the domains before the post and the solutions found
\* ------------------------------------------------------------------------

\* the matrix of the small searches
Small == <<<<1, 0, 2>>, <<2, 1, 1>>>>

\* the matrix and the domains of the search that finds 20 solutions
Large == <<<<3, 2, 1, -1, 0>>, <<3, -5, -1, -4, 2>>, <<2, -3, -5, -2, 3>>, <<3, -5, -4, 2, 0>>>>

LargeDoms == <<(-2)..40, (-3)..10, (-20)..40>>

\* the domains of the small searches
SmallVals == (-1)..(DomSize - 1)

Element2DInit ==
    /\ \E mat \in {Small, Large} :
          /\ kc = [kind |-> "Element2D", v |-> Element2DNew(mat), posted |-> FALSE,
                   pending |-> 0, pc |-> "idle"]
          /\ \E doms \in IF mat = Large THEN {LargeDoms}
                         ELSE {<<dx, dy, dz>> : dx \in SUBSET SmallVals \ {{}},
                                                dy \in SUBSET SmallVals \ {{}},
                                                dz \in SUBSET SmallVals \ {{}}} :
                /\ ks = [StoreNew(doms) EXCEPT !.aux = Element2DState(Element2DNew(mat))]
                /\ kg = [op |-> "init", pre |-> doms, sols |-> <<>>]
    /\ kframes = <<>>

MinsOf(st) == [i \in 1..Len(st.d) |-> MinOf(st.d[i])]

MaxsOf(st) == [i \in 1..Len(st.d) |-> MaxOf(st.d[i])]

\* select_min(x, size > 1, size) of first_fail: the first of the smallest
\* variables that are not fixed, 0 for None
SelectMin(st) ==
    LET open == {i \in 1..Len(st.d) : Cardinality(st.d[i]) > 1}
    IN  IF open = {} THEN 0
        ELSE CHOOSE i \in open :
                \A j \in open : \/ Cardinality(st.d[i]) < Cardinality(st.d[j])
                                \/ Cardinality(st.d[i]) = Cardinality(st.d[j]) /\ i <= j

\* MiniCP.post(c) after c.post(): fix_point, unless c.post() raised
Posted(kind, st, v) == IF st.raised THEN st ELSE FixPoint(kind, st, v)

\* the end of a branch or of the post
Searched(st, op) ==
    /\ ks' = [st EXCEPT !.raised = FALSE]
    /\ kc' = [kc EXCEPT !.posted = TRUE, !.pc = IF st.raised THEN "fail" ELSE "node"]
    /\ kg' = [kg EXCEPT !.op = op]

\* cp.post(c) of the constraint and the start of the search
SearchPost ==
    /\ ~kc.posted
    /\ kc.pc = "idle"
    /\ Searched(Posted(kc.kind, PostOf(kc.kind, ks, kc.v), kc.v), "post")
    /\ UNCHANGED <<kframes, besidesCons>>

\* _dfs at a node with branches: with_new_state of the left branch, the
\* post of x = x.min()
SearchLeft ==
    /\ kc.pc = "node"
    /\ SelectMin(ks) # 0
    /\ LET xs == SelectMin(ks)
           val == MinOf(ks.d[xs])
       IN  /\ kframes' = Append(kframes, [Reversible(ks) EXCEPT !.aux = ks.aux]
                                           @@ [xs |-> xs, val |-> val, left |-> TRUE])
           /\ Searched(Posted(kc.kind, Tell(ks, xs, "fix", val), kc.v), "left")
    /\ UNCHANGED besidesCons

\* _dfs at a node without branches: a solution
SearchSolution ==
    /\ kc.pc = "node"
    /\ SelectMin(ks) = 0
    /\ kg' = [kg EXCEPT !.op = "solution", !.sols = Append(@, MinsOf(ks))]
    /\ kc' = [kc EXCEPT !.pc = "back"]
    /\ UNCHANGED <<ks, kframes, besidesCons>>

\* the end of with_new_state of the left branch, by its return or by
\* InconsistencyException, and with_new_state of the right branch, the
\* post of x != x.min()
SearchRight ==
    /\ kc.pc \in {"fail", "back"}
    /\ kframes # <<>>
    /\ Last(kframes).left
    /\ LET f == Last(kframes)
           st == Restored(ks, f)
       IN  /\ kframes' = [kframes EXCEPT ![Len(kframes)].left = FALSE]
           /\ Searched(Posted(kc.kind, Tell(st, f.xs, "remove", f.val), kc.v), "right")
    /\ UNCHANGED besidesCons

\* the end of with_new_state of the right branch and the return of _dfs
SearchReturn ==
    /\ kc.pc \in {"fail", "back"}
    /\ kframes # <<>>
    /\ ~Last(kframes).left
    /\ ks' = Restored(ks, Last(kframes))
    /\ kframes' = Front(kframes)
    /\ kc' = [kc EXCEPT !.pc = "back"]
    /\ kg' = [kg EXCEPT !.op = "return"]
    /\ UNCHANGED besidesCons

SearchNext ==
    \/ SearchPost
    \/ SearchLeft
    \/ SearchSolution
    \/ SearchRight
    \/ SearchReturn

Element2DStart == Element2DInit /\ ConsIdleElse

SpecElement2D == Element2DStart /\ [][SearchNext]_vars

\* the assignments (i, j, matrix[i][j]) of the domains before the post
Assignments ==
    {<<i, j, kc.v.mat[i + 1][j + 1]>> :
        <<i, j>> \in {p \in (kg.pre[1] \cap 0..(kc.v.n - 1)) \X (kg.pre[2] \cap 0..(kc.v.m - 1)) :
                        kc.v.mat[p[1] + 1][p[2] + 1] \in kg.pre[3]}}

\* the search is over
Searched2D == kc.kind = "Element2D" /\ kc.posted /\ kframes = <<>> /\ kc.pc \in {"fail", "back"}

\* C25: the solutions of the depth-first search over x, y and z with
\* Element2D posted are assignments (i, j, matrix[i][j]) of the domains
\* before the post, no one found twice, and at the end of the search all
\* of them; 20 for the 4x5 matrix.
C25_Element2DSolutions ==
    kc.kind = "Element2D"
       => /\ \A k \in 1..Len(kg.sols) : kg.sols[k] \in Assignments
          /\ \A k, l \in 1..Len(kg.sols) : kg.sols[k] = kg.sols[l] => k = l
          /\ Searched2D => {kg.sols[k] : k \in 1..Len(kg.sols)} = Assignments
          /\ Searched2D /\ kc.v.mat = Large => Len(kg.sols) = 20

\* the end of a search that found some of the values of the matrix, and
\* not all of its places
C25_Witness ==
    /\ Searched2D
    /\ Len(kg.sols) = 3
    /\ Cardinality(kg.pre[3]) = 2
    /\ kg.pre[1] = SmallVals

\* the end of the search in the 4x5 matrix
C25_WitnessLarge == Searched2D /\ kc.v.mat = Large /\ Len(kg.sols) = 20

\* ------------------------------------------------------------------------
\* Sum in the search: three terms, the last of them the view -y, or the
\* variable fixed to -v when its domain has one value
\* ------------------------------------------------------------------------

\* the values of the terms
TermVals == (-1)..(DomSize - 2)

SumInit ==
    /\ \E doms \in {<<d1, d2, d3>> : d1 \in SUBSET TermVals \ {{}},
                                     d2 \in SUBSET TermVals \ {{}},
                                     d3 \in SUBSET TermVals \ {{}}} :
          /\ ks = [StoreNew(doms) EXCEPT !.aux = SumState, !.mem = SumMem(Len(doms))]
          /\ kg = [op |-> "init", pre |-> doms, sols |-> <<>>]
    /\ kc = [kind |-> "Sum", v |-> 0, posted |-> FALSE, pending |-> 0, pc |-> "idle"]
    /\ kframes = <<>>

SumStart == SumInit /\ ConsIdleElse

SpecSum == SumStart /\ [][SearchNext]_vars

RECURSIVE Total(_)
Total(b) == IF b = <<>> THEN 0 ELSE Head(b) + Total(Tail(b))

\* the value a of the term i belongs to an assignment within the bounds of
\* the terms that adds up to 0
Supported(st, i, a) ==
    \E b \in [1..NumTerms(st) -> TermVals] :
        /\ b[i] = a
        /\ \A j \in 1..NumTerms(st) : MinOf(st.d[j]) <= b[j] /\ b[j] <= MaxOf(st.d[j])
        /\ Total(b) = 0

\* one call of Sum.propagate in the store st does what is said of it
SumCallOk(st) ==
    IF Total(MinsOf(st)) > 0 \/ Total(MaxsOf(st)) < 0 THEN SumPropagate(st).raised
    ELSE \A i \in 1..NumTerms(st) :
            \A a \in st.d[i] : Supported(st, i, a) => a \in SumPropagate(st).d[i]

\* the store with the head of the queue taken, as _propagate has it
Taken(st) == [st EXCEPT !.q = Tail(@), !.sch[Head(st.q)] = FALSE]

\* every call of Sum.propagate that fix_point makes from the store st on
RECURSIVE SumCallsOk(_)
SumCallsOk(st) ==
    IF st.raised \/ st.q = <<>> THEN TRUE
    ELSE IF st.act[Head(st.q)]
    THEN SumCallOk(Taken(st)) /\ SumCallsOk(SumPropagate(Taken(st)))
    ELSE SumCallsOk(Taken(st))

\* the store after the left branch of the node, before its fix_point
LeftOf(st) == Tell(st, SelectMin(st), "fix", MinOf(st.d[SelectMin(st)]))

\* the store after the right branch of the frame f, before its fix_point
RightOf(st, f) == Tell(Restored(st, f), f.xs, "remove", f.val)

\* C26: in a search with Sum posted every call of Sum.propagate, the one of
\* post and those of the fix_point of every branch, raises
\* InconsistencyException when the minima of the terms add up to more than
\* 0 or their maxima to less than 0, and otherwise leaves every value of a
\* term that belongs to an assignment within the bounds of the terms adding
\* up to 0; the terms of every solution add up to 0, the last of them being
\* -y or -v.
C26_Sum ==
    kc.kind = "Sum"
       => /\ ~kc.posted => SumCallOk(SumSubscribe(ks, 1)) /\ SumCallsOk(SumPost(ks))
          /\ kc.pc = "node" /\ SelectMin(ks) # 0 => SumCallsOk(LeftOf(ks))
          /\ kc.pc \in {"fail", "back"} /\ kframes # <<>>
                => (Last(kframes).left => SumCallsOk(RightOf(ks, Last(kframes))))
          /\ \A k \in 1..Len(kg.sols) : Total(kg.sols[k]) = 0

\* a search that found two solutions or more after a post that took a
\* value from a term
C26_Witness ==
    /\ kc.kind = "Sum"
    /\ kframes = <<>>
    /\ kc.pc = "back"
    /\ Len(kg.sols) >= 2
    /\ \E k \in 1..Len(kg.sols) : kg.sols[k][1] # 0
    /\ \E i \in 1..3 : \E a \in kg.pre[i] : \A k \in 1..Len(kg.sols) : kg.sols[k][i] # a

\* the post raised on the maxima of the terms
C26_WitnessAtPost ==
    /\ kc.kind = "Sum"
    /\ kg.op = "post"
    /\ kc.pc = "fail"
    /\ Total([i \in 1..3 |-> MaxOf(kg.pre[i])]) < 0

\* the terms in the prefix of _fixed that _n_fixed delimits
FixedPrefix(st) == [i \in 1..st.aux.nFixed |-> st.mem.fixed[i] + 1]

\* _fixed, _n_fixed and _sum_fixed in the store st
SumPrefixOk(st) ==
    /\ Len(st.mem.fixed) = NumTerms(st)
    /\ {st.mem.fixed[i] : i \in 1..NumTerms(st)} = 0..(NumTerms(st) - 1)
    /\ st.aux.nFixed \in 0..NumTerms(st)
    /\ \A i \in 1..st.aux.nFixed : Cardinality(st.d[FixedPrefix(st)[i]]) = 1
    /\ st.aux.sumFixed = Total([i \in 1..st.aux.nFixed |-> MinOf(st.d[FixedPrefix(st)[i]])])

\* the same between the calls of Sum.propagate that fix_point makes from the
\* store st on
RECURSIVE SumPrefixAlong(_)
SumPrefixAlong(st) ==
    IF st.raised \/ st.q = <<>> THEN SumPrefixOk(st)
    ELSE IF st.act[Head(st.q)]
    THEN SumPrefixOk(st) /\ SumPrefixAlong(SumPropagate(Taken(st)))
    ELSE SumPrefixAlong(Taken(st))

\* C38: in every state of a posted Sum, between the propagations of a
\* fix_point and after restore_state included, _fixed is a permutation of the
\* indices of the terms, the terms at _fixed[0.._n_fixed) are all fixed, and
\* _sum_fixed is the sum of their values.
C38_SumFixedPrefix ==
    (kc.kind = "Sum" /\ kc.posted)
       => /\ SumPrefixOk(ks)
          /\ kc.pc = "node" /\ SelectMin(ks) # 0 => SumPrefixAlong(LeftOf(ks))
          /\ kc.pc \in {"fail", "back"} /\ kframes # <<>>
                => (Last(kframes).left => SumPrefixAlong(RightOf(ks, Last(kframes))))

\* after the restore_state of a branch that fixed terms: _fixed has been
\* permuted, one term is in the prefix and another is not fixed any more
C38_Witness ==
    /\ kc.kind = "Sum"
    /\ kg.op = "return"
    /\ ks.mem.fixed # SumMem(NumTerms(ks)).fixed
    /\ ks.aux.nFixed = 1
    /\ ks.aux.sumFixed # 0
    /\ \E i \in 1..NumTerms(ks) : Cardinality(ks.d[i]) > 1

\* ------------------------------------------------------------------------
\* StateStack (state.py) and the subscriptions of an IntVarImpl (int_var.py).
\* A StateStack is [size, stack]: the place of its _size primitive in the
\* manager and its _stack, a plain list that restore_state does not touch.
\* ------------------------------------------------------------------------
StateStackNew(place) == [size |-> place, stack |-> <<>>]

StateStackSize(m, st) == m.v[st.size]

\* get(index), index from 0
StateStackGet(st, index) == st.stack[index + 1]

\* a push that always appends to _stack
StateStackPushAppends(m, st, elem) ==
    [m |-> SetValueOf(m, st.size, StateStackSize(m, st) + 1),
     st |-> [st EXCEPT !.stack = Append(@, elem)]]

\* push(elem): the slot at _size is written again when the list is longer
StateStackPush(m, st, elem) ==
    [m |-> SetValueOf(m, st.size, StateStackSize(m, st) + 1),
     st |-> [st EXCEPT !.stack = IF Len(st.stack) > StateStackSize(m, st)
                                 THEN [@ EXCEPT ![StateStackSize(m, st) + 1] = elem]
                                 ELSE Append(@, elem)]]

\* _DomainListener._schedule_all from the index i on
RECURSIVE DomainListenerScheduleAll(_, _, _, _)
DomainListenerScheduleAll(s, m, st, i) ==
    IF i >= StateStackSize(m, st) THEN s
    ELSE DomainListenerScheduleAll(MiniCPSchedule(s, m, StateStackGet(st, i)), m, st, i + 1)

\* the while loop of fix_point with constraints whose propagate() does
\* nothing
RECURSIVE FixPointLoop(_, _)
FixPointLoop(s, m) ==
    IF s.queue = <<>> THEN s
    ELSE FixPointLoop(MiniCPPropagate(MiniCPPopLeft(s).s, m, MiniCPPopLeft(s).c).s, m)

\* ------------------------------------------------------------------------
\* Subscription specification: one variable, the stack of the constraints
\* subscribed to one of its events (_on_fix, _on_domain or _on_bound), and
\* NumCons constraints on a Trailer or a Copier.  The program subscribes
\* constraints, at most MaxSubs at a time, changes the variable so that the
\* event is delivered, calls fix_point, and saves and restores the state.
\*   tm   the manager: primitive 1 is the _size of the stack, primitive c+1
\*        the _active flag of constraint c
\*   tv   the StateStack
\*   tq   the solver
\*   tg   the last step, the queue before it (pre), the subscriptions in
\*        force, in the order they were made (subs), and those in force at
\*        the save_state of each open frame (frames)
\* ------------------------------------------------------------------------
MaxSubs == 2

StkInit ==
    /\ \E m \in {TrailerNew, CopierNew} : tm = MakeActives(MakeStateIntOf(m, 0), NumCons)
    /\ tv = StateStackNew(1)
    /\ tq = MiniCPNew
    /\ tg = [op |-> "init", pre |-> <<>>, subs |-> <<>>, frames |-> <<>>]

\* propagate_on_fix(c), propagate_on_domain_change(c) or
\* propagate_on_bound_change(c)
StkSubscribe ==
    /\ StateStackSize(tm, tv) < MaxSubs
    /\ \E c \in Cons :
          /\ tm' = StateStackPush(tm, tv, c).m
          /\ tv' = StateStackPush(tm, tv, c).st
          /\ tg' = [tg EXCEPT !.op = "subscribe", !.pre = tq.queue, !.subs = Append(@, c)]
    /\ UNCHANGED <<tq, besidesStk>>

\* the event of the stack is delivered to the _DomainListener
StkEvent ==
    /\ tq' = DomainListenerScheduleAll(tq, tm, tv, 0)
    /\ tg' = [tg EXCEPT !.op = "event", !.pre = tq.queue]
    /\ UNCHANGED <<tm, tv, besidesStk>>

\* fix_point()
StkFixPoint ==
    /\ tq.queue # <<>>
    /\ tq' = FixPointLoop(tq, tm)
    /\ tg' = [tg EXCEPT !.op = "fix_point", !.pre = tq.queue]
    /\ UNCHANGED <<tm, tv, besidesStk>>

StkSaveState ==
    /\ CanSave(tm)
    /\ tm' = SaveStateOf(tm)
    /\ tg' = [tg EXCEPT !.op = "save_state", !.pre = tq.queue, !.frames = Append(@, tg.subs)]
    /\ UNCHANGED <<tv, tq, besidesStk>>

StkRestoreState ==
    /\ GetLevel(tm) >= 0
    /\ tm' = RestoreStateOf(tm)
    /\ tg' = [tg EXCEPT !.op = "restore_state", !.pre = tq.queue,
                        !.subs = Last(tg.frames), !.frames = Front(@)]
    /\ UNCHANGED <<tv, tq, besidesStk>>

StkNext ==
    \/ StkSubscribe
    \/ StkEvent
    \/ StkFixPoint
    \/ StkSaveState
    \/ StkRestoreState

StkStart ==
    StkInit /\ SmIdle /\ DomIdle /\ SolIdle /\ DfsIdle /\ OptIdle /\ NeIdle /\ ConsIdle

SpecStack == StkStart /\ [][StkNext]_vars

\* the constraints the stack holds, the oldest first
Subscribed == Prefix(tv.stack, StateStackSize(tm, tv))

\* the constraints of seq that are not in have, each once, in the order of
\* seq
RECURSIVE Firsts(_, _)
Firsts(seq, have) ==
    IF seq = <<>> THEN <<>>
    ELSE IF Head(seq) \in have THEN Firsts(Tail(seq), have)
    ELSE <<Head(seq)>> \o Firsts(Tail(seq), have \cup {Head(seq)})

\* C37: a subscription made after a save_state is undone by the matching
\* restore_state: the stack holds the subscriptions that were in force at
\* the save_state, in their order, and an event schedules the constraints
\* of these subscriptions that are not yet in the queue, in their order, and
\* no other constraint.
C37_SubscriptionsRestored ==
    /\ Subscribed = tg.subs
    /\ tg.op = "event"
          => tq.queue = tg.pre \o Firsts(tg.subs, {tg.pre[i] : i \in 1..Len(tg.pre)})

\* an event after a restore_state that undid the subscription of one
\* constraint and kept the one of another: the first is still in the list
\* of the stack and is not scheduled
C37_Witness ==
    /\ tg.op = "event"
    /\ tg.pre = <<>>
    /\ Len(tv.stack) = 2
    /\ StateStackSize(tm, tv) = 1
    /\ tq.queue = <<tv.stack[1]>>
    /\ tv.stack[2] # tv.stack[1]

\* ------------------------------------------------------------------------
\* fix_point step by step: Equal(x, y), whose two closures schedule each
\* other, or LessOrEqual(x, y), whose propagate() schedules the constraint
\* itself, with the changes of the program between two fix_point calls and
\* the one frame it saves and restores.
\* kc.pc is "loop" inside fix_point; kg.pre holds the number of constraints
\* taken from the queue by the present fix_point, counted up to MaxTurns,
\* and a bit that every turn of the loop flips.
\* ------------------------------------------------------------------------
MaxTurns == 3

\* what a turn of the loop records
Turned(pre) == <<IF pre[1] < MaxTurns THEN pre[1] + 1 ELSE pre[1], 1 - pre[2]>>

FixInit == \E kind \in {"Equal", "LessOrEqual"} : KInit(kind)

FixStart == FixInit /\ ConsIdleElse

\* fix_point() is called; there is no listener
KFixEnter ==
    /\ kc.pc = "idle"
    /\ kc' = [kc EXCEPT !.pc = "loop"]
    /\ kg' = KDid("fix_point_enter", <<0, 0>>)
    /\ UNCHANGED <<ks, kframes, besidesCons>>

\* one turn of the while loop: _propagate(popleft())
KFixStep ==
    /\ kc.pc = "loop"
    /\ ~ks.raised
    /\ ks.q # <<>>
    /\ ks' = IF ks.act[Head(ks.q)]
             THEN PropagateOf(kc.kind, Taken(ks), Head(ks.q), kc.v)
             ELSE Taken(ks)
    /\ kg' = KDid("propagate", Turned(kg.pre))
    /\ UNCHANGED <<kc, kframes, besidesCons>>

\* the queue is empty: fix_point returns
KFixReturn ==
    /\ kc.pc = "loop"
    /\ ~ks.raised
    /\ ks.q = <<>>
    /\ kc' = [kc EXCEPT !.pending = 0, !.pc = "idle"]
    /\ kg' = KDid("fix_point_return", kg.pre)
    /\ UNCHANGED <<ks, kframes, besidesCons>>

\* propagate() raised InconsistencyException: the except block empties the
\* queue and the exception leaves fix_point
KFixRaise ==
    /\ kc.pc = "loop"
    /\ ks.raised
    /\ ks' = [Drain(ks) EXCEPT !.raised = FALSE]
    /\ kc' = [kc EXCEPT !.pending = 0, !.pc = "failed"]
    /\ kg' = KDid("fix_point_raise", kg.pre)
    /\ UNCHANGED <<kframes, besidesCons>>

\* save_state(), of the one frame of the program
KFixSaveState == kframes = <<>> /\ KSaveState

\* restore_state(), outside fix_point
KFixRestoreState == kc.pc # "loop" /\ KRestoreState

FixNext ==
    \/ KChange
    \/ KPost
    \/ KFixSaveState
    \/ KFixRestoreState
    \/ KFixEnter
    \/ KFixStep
    \/ KFixReturn
    \/ KFixRaise

\* a step of fix_point, told by what it records: a turn of the loop, the
\* return or the raise; one of the three is possible wherever kc.pc is
\* "loop", and each of them changes kg
FixPointRuns ==
    /\ kc.pc = "loop"
    /\ kg' \in {KDid("propagate", Turned(kg.pre)), KDid("fix_point_return", kg.pre),
                KDid("fix_point_raise", kg.pre)}

\* fix_point is one call on one thread: once entered it makes its next
\* step, until it returns or raises
SpecFixPoint == FixStart /\ [][FixNext]_vars /\ WF_kg(FixPointRuns)

\* the same calls with no step promised
SpecFixPointSteps == FixStart /\ [][FixNext]_vars

\* C34: every fix_point call terminates, with constraints that schedule
\* themselves and each other: the queue empties or InconsistencyException
\* is raised.
C34_FixPointTerminates == (kc.pc = "loop") ~> (kc.pc # "loop")

\* a fix_point of Equal returned after it took three closures from the queue
C34_Witness ==
    /\ kc.kind = "Equal"
    /\ kg.op = "fix_point_return"
    /\ kg.pre[1] >= 3

\* a fix_point of LessOrEqual in which propagate() ran twice
C34_WitnessSelf ==
    /\ kc.kind = "LessOrEqual"
    /\ kg.op \in {"fix_point_return", "fix_point_raise"}
    /\ kg.pre[1] >= 2

\* ------------------------------------------------------------------------
\* A search whose branching is LimitedDiscrepancyBranching(bs, max_d), bs
\* being the "choices" branching: the constructor keeps bs and max_d and
\* sets cur_d to 0. The search is called as any other (solve,
\* solve_subject_to, optimize_subject_to, with or without a limit); the
\* first _dfs call that evaluates the branching calls __call__.
\* ------------------------------------------------------------------------
MaxDiscrepancy == 2

LimitedDiscrepancyBranchingNew(max_d) ==
    [branching |-> "choices", kind |-> "none", level |-> NoLevel, base |-> -1,
     before |-> <<>>, ret |-> SearchStatisticsNew, first |-> "none", prior |-> -1,
     curr |-> 0, max_d |-> max_d, cur_d |-> 0]

LdsInit ==
    /\ \E m \in {TrailerNew, CopierNew} : fm = MakeStateIntOf(m, Choices)
    /\ \E d \in 0..MaxDiscrepancy : fcall = LimitedDiscrepancyBranchingNew(d)
    /\ fstack = <<>>
    /\ fpc = "setup"
    /\ fstats = SearchStatisticsNew
    /\ fg = NoCounts

\* _dfs: the limit answers false and the branching is called;
\* LimitedDiscrepancyBranching.__call__ raises NotImplementedError, which
\* no callback catches: it leaves _dfs, the callback and the with_new_state
\* of _solve without a restore, the with_new_state of a subject_to call
\* likewise, and the call of the search
LimitedDiscrepancyCall ==
    /\ fpc = "node"
    /\ fstack' = <<fstack[1]>>
    /\ fpc' = "raised"
    /\ fg' = Did("NotImplementedError", FALSE)
    /\ UNCHANGED <<fm, fstats, fcall, besidesDfs>>

LdsNext ==
    \/ SetupWrite
    \/ SubjectToEnter
    \/ SubjectWrite
    \/ SubjectRaise
    \/ SolveEnter
    \/ LimitedDiscrepancyCall
    \/ StopSearch
    \/ CallAgain

LdsStart == LdsInit /\ SmIdle /\ DomIdle /\ SolIdle /\ OptIdle /\ NeIdle /\ ConsIdle /\ StkIdle

SpecLds == LdsStart /\ [][LdsNext]_vars

\* C31: a call of LimitedDiscrepancy(bs, maxD) at a node returns the
\* alternatives of bs at the positions p with currentDiscrepancy + p <= maxD,
\* so that the search goes on from the node: the call of the branching is
\* never what ends the search.
C31_LimitedDiscrepancyReturnsAlternatives ==
    fg.op # "NotImplementedError"

====
